---- MODULE Spec2Model ----
(***************************************************************************)
(* Year-over-year sales analysis (backend/app/analysis.py, main.py).       *)
(*                                                                         *)
(* One HTTP request to /api/analyze is modelled as a run of the pipeline   *)
(*   _read_excel -> _sanitize_df -> _find_month_columns -> _period_columns *)
(*   -> derived columns -> _apply_filters -> envelope -> response          *)
(* with the optional second (compare) call of analyze_yoy. A process may   *)
(* serve one request after another; the decoded-table cache and the        *)
(* environment variables outlive a request.                                *)
(*                                                                         *)
(* Representation choices                                                  *)
(*  - A column label is a sequence of tokens (month abbreviation, 4-digit  *)
(*    "20dd" year, 2-digit number, separator, whitespace, other text).     *)
(*  - Text (Cliente, search needle) is a sequence of atoms.                *)
(*  - Optional[...] values are sets: {} is None, {v} is the value v.       *)
(*  - A month key "YYYY-MM" is the pair <<year, month>>; <<>> is "".       *)
(*  - Floating point values are exact rationals [n, d] (d > 0), NaN is     *)
(*    [n |-> 0, d |-> 0].                                                  *)
(***************************************************************************)
EXTENDS Integers, Sequences, FiniteSets, TLC

VARIABLES
    env,          \* the process environment: OPENAI_API_KEY, OPENAI_TIMEOUT_SECONDS
    endpoint,     \* the route of the request: analyze, analyze_netsuite, netsuite_test
    req,          \* form values of the request (main.py analyze parameters)
    table,        \* the decoded upload: column labels and raw rows
    pc,           \* position of the request in the pipeline
    call,         \* "primary" or "compare": which analyze_yoy call is running
    df,           \* analyze_yoy's working table (sequence of rows)
    month_cols,   \* recognized month columns, sorted by date
    curr_cols,    \* resolved current-period columns
    prev_cols,    \* resolved previous-period columns
    df_filtered,  \* the filtered view of df
    envelope,     \* Optional: the dict returned by the running analyze_yoy
    result,       \* Optional: the handler's result (after the primary call)
    error,        \* Optional: the exception raised by the running call
    response,     \* Optional: the HTTP response
    cache,        \* _EXCEL_CACHE: entries in OrderedDict order (last = newest)
    shared,       \* whether df is the very object the cache holds (no copy made)
    pending,      \* requests in flight whose handler waits at `await file.read()`
    used          \* history: the content keys by last use (last = most recent)

vars == <<env, endpoint, req, table, pc, call, df, month_cols, curr_cols, prev_cols,
          df_filtered, envelope, result, error, response, cache,
          shared, pending, used>>

----------------------------------------------------------------------------
(* Bounds of the model *)

MaxCols == 9     \* month columns a table may draw from
MaxRows == 2     \* data rows of a table
MaxFilters == 2  \* filters a request may set at once
MaxFiles == 2    \* distinct uploads a process may be sent
MaxLabel == 5     \* tokens of a column label

----------------------------------------------------------------------------
(* Generic helpers *)

None == {}
Some(v) == {v}
IsNone(o) == o = {}
The(o) == CHOOSE v \in o : TRUE

Range(s) == {s[i] : i \in 1..Len(s)}

RECURSIVE SumSeq(_)
SumSeq(s) == IF s = <<>> THEN 0 ELSE Head(s) + SumSeq(Tail(s))

Abs(x) == IF x < 0 THEN -x ELSE x

RECURSIVE Gcd(_, _)
Gcd(a, b) == IF b = 0 THEN a ELSE Gcd(b, a % b)

----------------------------------------------------------------------------
(* Column labels as token sequences *)

Tok(k, n) == [k |-> k, n |-> n]
TMon(m) == Tok("mon", m)      \* ene, feb, ... (any case)
TY4(y) == Tok("y4", y)        \* four digits starting with 20
TD2(n) == Tok("d2", n)        \* exactly two digits
TWs == Tok("ws", 0)           \* a run of whitespace
TSep == Tok("sep", 0)         \* one of - _ /
TTxt(n) == Tok("txt", n)      \* any other run of non-blank characters

\* "ene 2024"
LabelMonYear(m, y) == <<TMon(m), TWs, TY4(y)>>
\* "2024-ene"
LabelYearMon(m, y) == <<TY4(y), TSep, TMon(m)>>

\* MONTH_MAP: the vocabulary of month abbreviations
MONTH_MAP == 1..12

\* MonthColumn dataclass; date is datetime(year, month, 1)
MonthColumn(col, month, year) == [col |-> col, month |-> month, year |-> year]
DateOf(mc) == mc.year * 12 + mc.month

\* str(col).strip()
RECURSIVE StripLeft(_)
StripLeft(s) ==
    IF s # <<>> /\ Head(s) = TWs THEN StripLeft(Tail(s)) ELSE s

RECURSIVE StripRight(_)
StripRight(s) ==
    IF s # <<>> /\ s[Len(s)] = TWs THEN StripRight(SubSeq(s, 1, Len(s) - 1)) ELSE s

Strip(s) == StripRight(StripLeft(s))

\* the part  \s*[-_/]?\s*  of the three regexes, between first and last token
IsOptSep(mid) ==
    \/ mid = <<>>
    \/ mid = <<TWs>>
    \/ mid = <<TSep>>
    \/ mid = <<TWs, TSep>>
    \/ mid = <<TSep, TWs>>
    \/ mid = <<TWs, TSep, TWs>>

\* rx.match(col_str) for MONTH_REGEXES[i]; the match is [mon, year] or None
RegexMatch(i, s) ==
    IF Len(s) < 2 \/ ~IsOptSep(SubSeq(s, 2, Len(s) - 1)) THEN None
    ELSE LET a == s[1]
             b == s[Len(s)]
         IN CASE i = 1 /\ a.k = "mon" /\ b.k = "y4" -> Some([mon |-> a.n, year |-> b.n])
              [] i = 2 /\ a.k = "y4" /\ b.k = "mon" -> Some([mon |-> b.n, year |-> a.n])
              [] i = 3 /\ a.k = "mon" /\ b.k = "d2" -> Some([mon |-> a.n, year |-> b.n])
              [] OTHER -> None

\* re.split(r"\s+", col_str): the runs of non-blank tokens
RECURSIVE SplitWs(_, _)
SplitWs(s, cur) ==
    IF s = <<>> THEN <<cur>>
    ELSE IF Head(s) = TWs THEN <<cur>> \o SplitWs(Tail(s), <<>>)
    ELSE SplitWs(Tail(s), Append(cur, Head(s)))

\* _parse_month_column: Optional[MonthColumn]
ParseMonthColumn(col) ==
    LET col_str == Strip(col)
        hits == {i \in 1..3 : RegexMatch(i, col_str) # None}
    IN IF col_str = <<>> THEN None
       ELSE IF hits # {} THEN
            LET i == CHOOSE j \in hits : \A h \in hits : j <= h
                m == The(RegexMatch(i, col_str))
                year == IF m.year < 100 THEN m.year + 2000 ELSE m.year
            IN IF m.mon \notin MONTH_MAP THEN None
               ELSE Some(MonthColumn(col, m.mon, year))
       ELSE LET parts == SplitWs(col_str, <<>>)
            IN IF /\ Len(parts) >= 2
                  /\ Len(parts[1]) = 1 /\ parts[1][1].k = "mon"
                  /\ parts[1][1].n \in MONTH_MAP
                  /\ Len(parts[2]) = 1 /\ parts[2][1].k = "y4"
               THEN Some(MonthColumn(col, parts[1][1].n, parts[2][1].n))
               ELSE None

\* sorted(cols, key=lambda x: x.date): stable insertion sort
RECURSIVE InsertByDate(_, _)
InsertByDate(sorted, mc) ==
    IF sorted = <<>> THEN <<mc>>
    ELSE IF DateOf(mc) < DateOf(Head(sorted))
         THEN <<mc>> \o sorted
         ELSE <<Head(sorted)>> \o InsertByDate(Tail(sorted), mc)

RECURSIVE SortedByDate(_)
SortedByDate(cols) ==
    IF cols = <<>> THEN <<>>
    ELSE InsertByDate(SortedByDate(SubSeq(cols, 1, Len(cols) - 1)), cols[Len(cols)])

\* _find_month_columns
RECURSIVE ParsedColumns(_)
ParsedColumns(labels) ==
    IF labels = <<>> THEN <<>>
    ELSE LET mc == ParseMonthColumn(Head(labels))
         IN (IF mc = None THEN <<>> ELSE <<The(mc)>>) \o ParsedColumns(Tail(labels))

FindMonthColumns(labels) == SortedByDate(ParsedColumns(labels))

\* _month_key: f"{year:04d}-{month:02d}"
MonthKey(mc) == <<mc.year, mc.month>>

\* _find_month_by_key: the first column with that key, or None
FindMonthByKey(cols, key) ==
    LET hits == {i \in 1..Len(cols) : MonthKey(cols[i]) = key}
    IN IF hits = {} THEN None
       ELSE Some(cols[CHOOSE i \in hits : \A j \in hits : i <= j])

\* the key of the same calendar month one year earlier
PrevYearKey(mc) == <<mc.year - 1, mc.month>>

\* _build_available_months
BuildAvailableMonths(cols) ==
    [i \in 1..Len(cols) |->
        [key |-> MonthKey(cols[i]), year |-> cols[i].year, month |-> cols[i].month,
         hasPrev |-> \E j \in 1..Len(cols) : MonthKey(cols[j]) = PrevYearKey(cols[i])]]

----------------------------------------------------------------------------
(* _period_columns *)

Truthy(key) == key # None /\ The(key) # <<>>

PeriodOk(curr, prev) == [ok |-> TRUE, err |-> "", curr |-> curr, prev |-> prev]
PeriodErr(msg) == [ok |-> FALSE, err |-> msg, curr |-> <<>>, prev |-> <<>>]

\* list.index: position of the first element equal to mc
IndexOf(cols, mc) == CHOOSE i \in 1..Len(cols) :
                        cols[i] = mc /\ \A j \in 1..Len(cols) : cols[j] = mc => i <= j

\* window size of a rolling mode
Window(mode) == IF mode = "rolling3" THEN 3 ELSE 6

\* lines 234-237: the anchor month (None when the key matches no column)
SelectAnchor_IgnoreKey(cols, month_key) == Some(cols[Len(cols)])

SelectAnchor(cols, month_key) ==
    IF Truthy(month_key) THEN FindMonthByKey(cols, The(month_key))
    ELSE Some(cols[Len(cols)])

\* lines 242-248: mode == "month"
MonthPeriod(cols, sel) ==
    LET prev == FindMonthByKey(cols, PrevYearKey(sel))
    IN IF prev = None
       THEN PeriodErr("No existe el mismo mes del anio anterior para el mes seleccionado.")
       ELSE PeriodOk(<<sel>>, <<The(prev)>>)

\* lines 250-259: mode == "ytd"
YtdPeriod(cols, sel) ==
    LET InCurr(m) == m.year = sel.year /\ m.month <= sel.month
        InPrev(m) == m.year = sel.year - 1 /\ m.month <= sel.month
        cc == SelectSeq(cols, InCurr)
        pp == SelectSeq(cols, InPrev)
    IN IF Len(pp) # Len(cc) \/ pp = <<>>
       THEN PeriodErr("No hay suficientes meses del anio anterior para YTD.")
       ELSE PeriodOk(cc, pp)

\* line 266: month_cols[idx - window + 1 : idx + 1], pos = idx + 1
RollingWindow_Calendar(cols, pos, window) ==
    LET InRange(m) == /\ DateOf(m) > DateOf(cols[pos]) - window
                      /\ DateOf(m) <= DateOf(cols[pos])
    IN SelectSeq(cols, InRange)

RollingWindow(cols, pos, window) == SubSeq(cols, pos - window + 1, pos)

\* lines 267-272: the prior-year column of every window month (None = missing)
RollingPrev_Lenient(cols, curr_window) ==
    [i \in 1..Len(curr_window) |->
        IF FindMonthByKey(cols, PrevYearKey(curr_window[i])) = None
        THEN Some(curr_window[i])
        ELSE FindMonthByKey(cols, PrevYearKey(curr_window[i]))]

RollingPrev(cols, curr_window) ==
    [i \in 1..Len(curr_window) |-> FindMonthByKey(cols, PrevYearKey(curr_window[i]))]

\* lines 261-277: mode in {"rolling3", "rolling6"}
RollingPeriod(cols, sel, mode) ==
    LET window == Window(mode)
        pos == IndexOf(cols, sel)
    IN IF pos < window
       THEN PeriodErr("No hay suficientes meses para el rolling seleccionado.")
       ELSE LET cw == RollingWindow(cols, pos, window)
                pw == RollingPrev(cols, cw)
            IN IF \E i \in 1..Len(pw) : pw[i] = None
               THEN PeriodErr("No hay suficientes meses del anio anterior para el rolling seleccionado.")
               ELSE PeriodOk(cw, [i \in 1..Len(pw) |-> The(pw[i])])

PeriodColumns(cols0, mode, month_key) ==
    IF cols0 = <<>> THEN PeriodErr("No se detectaron columnas de meses.")
    ELSE
    LET cols == SortedByDate(cols0)
        selected == SelectAnchor(cols, month_key)
    IN IF selected = None THEN PeriodErr("Mes seleccionado no disponible.")
       ELSE CASE mode = "month" -> MonthPeriod(cols, The(selected))
              [] mode = "ytd" -> YtdPeriod(cols, The(selected))
              [] mode \in {"rolling3", "rolling6"} -> RollingPeriod(cols, The(selected), mode)
              [] OTHER -> PeriodErr("Modo no soportado. Usa month, ytd, rolling3 o rolling6.")

----------------------------------------------------------------------------
(* Numbers: exact rationals for float arithmetic *)

NaN == [n |-> 0, d |-> 0]

\* n / d for d # 0, in lowest terms with a positive denominator
Rat(n, d) ==
    LET g == Gcd(Abs(n), Abs(d))
        s == IF d < 0 THEN -1 ELSE 1
    IN [n |-> s * (n \div g), d |-> s * (d \div g)]

RatInt(k) == [n |-> k, d |-> 1]
IsNaN(r) == r.d = 0
RatMulInt(r, k) == IF IsNaN(r) THEN NaN ELSE Rat(r.n * k, r.d)
RatSubInt(r, k) == IF IsNaN(r) THEN NaN ELSE Rat(r.n - k * r.d, r.d)

\* comparisons; every comparison with NaN is False
RatLt(a, b) == ~IsNaN(a) /\ ~IsNaN(b) /\ a.n * b.d < b.n * a.d
RatLe(a, b) == ~IsNaN(a) /\ ~IsNaN(b) /\ a.n * b.d <= b.n * a.d
RatGe(a, b) == RatLe(b, a)
RatGt(a, b) == RatLt(b, a)

\* _safe_float: NaN becomes None
SafeFloat(r) == IF IsNaN(r) THEN None ELSE Some(r)

----------------------------------------------------------------------------
(* Cells and text *)

Num(v) == [k |-> "num", v |-> v]
Blank == [k |-> "blank", v |-> 0]
TextCell == [k |-> "text", v |-> 0]

\* pd.to_numeric(x, errors="coerce").fillna(0)
ToNumeric(cell) == IF cell.k = "num" THEN cell.v ELSE 0

\* str.lower() on one atom
LowerAtom(a) == CASE a = "A" -> "a" [] a = "B" -> "b" [] OTHER -> a
Lower(s) == [i \in 1..Len(s) |-> LowerAtom(s[i])]

\* str.strip() on text
RECURSIVE TextStripLeft(_)
TextStripLeft(s) ==
    IF s # <<>> /\ Head(s) = " " THEN TextStripLeft(Tail(s)) ELSE s

RECURSIVE TextStripRight(_)
TextStripRight(s) ==
    IF s # <<>> /\ s[Len(s)] = " " THEN TextStripRight(SubSeq(s, 1, Len(s) - 1)) ELSE s

TextStrip(s) == TextStripRight(TextStripLeft(s))

\* astype(str): NaN prints as "nan"
AsStr(v) == IF v = None THEN <<"nan">> ELSE The(v)

\* str.split(":")[0]
RECURSIVE BeforeColon(_)
BeforeColon(s) ==
    IF s = <<>> \/ Head(s) = ":" THEN <<>> ELSE <<Head(s)>> \o BeforeColon(Tail(s))

\* df["Cliente"].astype(str).str.split(":").str[0].str.strip()
ClusterOf(cliente) == TextStrip(BeforeColon(AsStr(cliente)))

\* str.contains(needle) for a literal needle
Contains(hay, needle) ==
    \E i \in 1..(Len(hay) - Len(needle) + 1) :
        SubSeq(hay, i, i + Len(needle) - 1) = needle

----------------------------------------------------------------------------
(* The excel cache *)

_EXCEL_CACHE_MAX == 4

CacheIndex(c, key) == {i \in 1..Len(c) : c[i].key = key}

\* a move_to_end that leaves the entry where it is
MoveToEnd_Stay(c, key) == c

\* OrderedDict.move_to_end(key)
MoveToEnd(c, key) ==
    LET IsKey(e) == e.key = key
        NotKey(e) == e.key # key
    IN SelectSeq(c, NotKey) \o SelectSeq(c, IsKey)

\* while len(cache) > MAX: popitem(last=False)
RECURSIVE Evict(_)
Evict(c) == IF Len(c) > _EXCEL_CACHE_MAX THEN Evict(Tail(c)) ELSE c

\* _excel_cache_set
ExcelCacheSet(c, key, d) ==
    LET stored == IF CacheIndex(c, key) = {}
                  THEN Append(c, [key |-> key, df |-> d])
                  ELSE [i \in 1..Len(c) |-> IF c[i].key = key THEN [key |-> key, df |-> d] ELSE c[i]]
    IN Evict(MoveToEnd(stored, key))

\* DataFrame.copy(deep=True): a new object with the same contents
DeepCopy_Alias(d) == [df |-> d, shared |-> TRUE]

DeepCopy(d) == [df |-> d, shared |-> FALSE]

\* _excel_cache_get: the cached table (None on a miss)
ExcelCacheGet(c, key) ==
    IF CacheIndex(c, key) = {} THEN None
    ELSE Some(c[CHOOSE i \in CacheIndex(c, key) : TRUE].df)

----------------------------------------------------------------------------
(* Derived columns (analyze_yoy, lines 342-366) *)

Labels(cols) == [i \in 1..Len(cols) |-> cols[i].col]

\* df[[m.col for m in cols]].sum(axis=1) for one row
RowSum(cells, cols) == SumSeq([i \in 1..Len(cols) |-> ToNumeric(cells[cols[i].col])])

\* the Var_% column of a row
VarPct_PositiveBase(curr, prev) ==
    IF prev > 0 THEN RatMulInt(Rat(curr - prev, prev), 100)
    ELSE IF curr = 0 /\ prev = 0 THEN RatInt(0)
    ELSE NaN

VarPct(curr, prev) ==
    IF prev # 0 THEN RatMulInt(Rat(curr - prev, prev), 100)
    ELSE IF curr = 0 THEN RatInt(0)
    ELSE NaN

\* one row of df after lines 342-359
WithMetrics(r, cc, pp) ==
    LET period == Range(Labels(cc)) \cup Range(Labels(pp))
        cells == [l \in DOMAIN r.cells |->
                    IF l \in period THEN Num(ToNumeric(r.cells[l])) ELSE r.cells[l]]
        cs == RowSum(cells, cc)
        ps == RowSum(cells, pp)
    IN [Cliente |-> r.Cliente, Code |-> r.Code, Ubicacion |-> r.Ubicacion,
        Country |-> r.Country, cells |-> cells,
        Current_Sum |-> cs, Previous_Sum |-> ps,
        Var_Absoluta |-> cs - ps,
        Var_pct |-> VarPct(cs, ps),
        Impacto |-> Abs(cs - ps),
        Cluster |-> ClusterOf(r.Cliente)]

\* the header aliases of the country column, in lookup order
CountryAliases == <<"Pai's", "Pais", "Country", "Hotel Country", "Hotel Country ">>

\* country_col: the first alias present among the headers, or None
CountryCol(headers) ==
    LET hits == {i \in 1..Len(CountryAliases) : CountryAliases[i] \in headers}
    IN IF hits = {} THEN None
       ELSE Some(CountryAliases[CHOOSE i \in hits : \A j \in hits : i <= j])

----------------------------------------------------------------------------
(* _apply_filters *)

\* the haystack of one row for the free-text search
Haystack(r, headers) ==
    Lower(AsStr(r.Cliente)) \o <<" ">> \o Lower(AsStr(r.Code))
      \o (IF "Ubicacion" \in headers THEN <<" ">> \o Lower(AsStr(r.Ubicacion)) ELSE <<>>)
      \o (IF CountryCol(headers) # None THEN <<" ">> \o Lower(AsStr(r.Country)) ELSE <<>>)

SearchNeedle(q) == TextStrip(Lower(The(q.search)))
SearchActive(q) == q.search # None /\ The(q.search) # <<>> /\ SearchNeedle(q) # <<>>
LocationActive(q, headers) ==
    q.location # None /\ The(q.location) # <<>> /\ The(q.location) # <<"all">>
      /\ "Ubicacion" \in headers

\* does the row survive every active filter
Survives_Strict(r, q, headers) ==
    /\ SearchActive(q) => Contains(Haystack(r, headers), SearchNeedle(q))
    /\ LocationActive(q, headers) => r.Ubicacion = q.location
    /\ q.impact_min # None => r.Impacto > The(q.impact_min)
    /\ q.impact_max # None => r.Impacto < The(q.impact_max)
    /\ q.var_min # None => (~IsNaN(r.Var_pct) /\ RatGt(r.Var_pct, RatInt(The(q.var_min))))
    /\ q.var_max # None => (~IsNaN(r.Var_pct) /\ RatLt(r.Var_pct, RatInt(The(q.var_max))))

Survives(r, q, headers) ==
    /\ SearchActive(q) => Contains(Haystack(r, headers), SearchNeedle(q))
    /\ LocationActive(q, headers) => r.Ubicacion = q.location
    /\ q.impact_min # None => r.Impacto >= The(q.impact_min)
    /\ q.impact_max # None => r.Impacto <= The(q.impact_max)
    /\ q.var_min # None => (~IsNaN(r.Var_pct) /\ RatGe(r.Var_pct, RatInt(The(q.var_min))))
    /\ q.var_max # None => (~IsNaN(r.Var_pct) /\ RatLe(r.Var_pct, RatInt(The(q.var_max))))

\* filtered.get("Hotel - Code", "").astype(str) fails when the column is absent
FilterRaises(q, headers) == SearchActive(q) /\ "Hotel - Code" \notin headers

ApplyFilters_KeepAll(rows, q, headers) == rows

ApplyFilters(rows, q, headers) ==
    LET Keep(r) == Survives(r, q, headers)
    IN SelectSeq(rows, Keep)

----------------------------------------------------------------------------
(* Totals and segment rollups (analyze_yoy, lines 404-558) *)

\* df[field].sum()
SumField(rows, field) == SumSeq([i \in 1..Len(rows) |-> rows[i][field]])

\* total_var_pct
TotalVarPct(total_current, total_previous) ==
    IF total_previous > 0
    THEN RatMulInt(Rat(total_current - total_previous, total_previous), 100)
    ELSE RatInt(0)

\* np.where(prev != 0, (curr / prev - 1) * 100, np.nan) of a grouped table
GroupVarPct(curr, prev) ==
    IF prev # 0 THEN RatMulInt(RatSubInt(Rat(curr, prev), 1), 100) ELSE NaN

\* one output row of a rollup: Prev/Curr/VarAbs/VarPct through _safe_float
GroupRow(key, rows) ==
    LET ps == SumField(rows, "Previous_Sum")
        cs == SumField(rows, "Current_Sum")
    IN [Key |-> key, Prev |-> ps, Curr |-> cs,
        VarAbs |-> SumField(rows, "Var_Absoluta"),
        VarPct |-> SafeFloat(GroupVarPct(cs, ps))]

\* insertion of a group row into a list sorted by VarAbs descending
RECURSIVE InsertByVarAbs(_, _)
InsertByVarAbs(sorted, g) ==
    IF sorted = <<>> THEN <<g>>
    ELSE IF g.VarAbs > Head(sorted).VarAbs
         THEN <<g>> \o sorted
         ELSE <<Head(sorted)>> \o InsertByVarAbs(Tail(sorted), g)

RECURSIVE SortByVarAbs(_)
SortByVarAbs(groups) ==
    IF groups = <<>> THEN <<>>
    ELSE InsertByVarAbs(SortByVarAbs(SubSeq(groups, 1, Len(groups) - 1)), groups[Len(groups)])

\* the grouping key of a row (NaN keys are None); Cluster is never NaN
GroupKey(r, col) == IF col = "Cluster" THEN Some(r.Cluster) ELSE r[col]

\* the distinct non-NaN keys of a column, in order of first appearance
RECURSIVE GroupKeys(_, _, _)
GroupKeys(rows, col, seen) ==
    IF rows = <<>> THEN <<>>
    ELSE LET k == GroupKey(Head(rows), col)
         IN IF k = None \/ k \in seen
            THEN GroupKeys(Tail(rows), col, seen)
            ELSE <<k>> \o GroupKeys(Tail(rows), col, seen \cup {k})

\* the rows of one group
Members(rows, col, k) == LET In(r) == GroupKey(r, col) = k IN SelectSeq(rows, In)

\* df.groupby(col).agg(sum) + Var_% + sort_values("Var_Absoluta", ascending=False)
Rollup(rows, col) ==
    LET keys == GroupKeys(rows, col, {})
    IN SortByVarAbs([i \in 1..Len(keys) |->
                        GroupRow(The(keys[i]), Members(rows, col, keys[i]))])

\* main.py line 74: alert_threshold or -30.0
AlertThresholdArg(q) ==
    IF q.alert_threshold = None \/ The(q.alert_threshold) = 0 THEN -30
    ELSE The(q.alert_threshold)

\* main.py line 85: churn_months or 9
ChurnMonthsArg(q) ==
    IF q.churn_months = None \/ The(q.churn_months) = 0 THEN 9
    ELSE The(q.churn_months)

----------------------------------------------------------------------------
(* Single-period buckets (analyze_yoy, lines 409-432) *)

\* df_filtered["Var_%"] < alert_threshold (a NaN compares false)
AlertsMask(r, alert_threshold) == RatLt(r.Var_pct, RatInt(alert_threshold))

\* (Var_Absoluta > 3000) | (Var_% > 50)
GrowthMask_Inclusive(r) == r.Var_Absoluta >= 3000 \/ RatGe(r.Var_pct, RatInt(50))

GrowthMask(r) == r.Var_Absoluta > 3000 \/ RatGt(r.Var_pct, RatInt(50))

\* (Previous_Sum == 0) & (Current_Sum > 0)
NewMask_AnyCurrent(r) == r.Previous_Sum = 0

NewMask(r) == r.Previous_Sum = 0 /\ r.Current_Sum > 0

\* (Previous_Sum > 0) & (Current_Sum == 0)
LostMask(r) == r.Previous_Sum > 0 /\ r.Current_Sum = 0

\* insertion of a row into a list sorted by a column, descending; rows with
\* equal keys stay in table order
RECURSIVE InsertDesc(_, _, _)
InsertDesc(sorted, r, field) ==
    IF sorted = <<>> THEN <<r>>
    ELSE IF r[field] > Head(sorted)[field]
         THEN <<r>> \o sorted
         ELSE <<Head(sorted)>> \o InsertDesc(Tail(sorted), r, field)

\* dfx.sort_values(field, ascending=False)
RECURSIVE SortDesc(_, _)
SortDesc(rows, field) ==
    IF rows = <<>> THEN <<>>
    ELSE InsertDesc(SortDesc(SubSeq(rows, 1, Len(rows) - 1), field), rows[Len(rows)], field)

\* the four bucket frames, sorted
Alerts(rows, alert_threshold) ==
    LET In(r) == AlertsMask(r, alert_threshold) IN SortDesc(SelectSeq(rows, In), "Impacto")
Growth(rows) == SortDesc(SelectSeq(rows, GrowthMask), "Var_Absoluta")
NewHotels(rows) == SortDesc(SelectSeq(rows, NewMask), "Current_Sum")
LostHotels(rows) == SortDesc(SelectSeq(rows, LostMask), "Previous_Sum")

\* _rows: the records of a bucket frame (VarPct through NaN -> None)
TableRows(rows, headers) ==
    [i \in 1..Len(rows) |->
        [Cliente |-> rows[i].Cliente,
         HotelCode |-> IF "Hotel - Code" \in headers THEN rows[i].Code ELSE None,
         Ubicacion |-> IF "Ubicacion" \in headers THEN rows[i].Ubicacion ELSE None,
         Prev |-> rows[i].Previous_Sum,
         Curr |-> rows[i].Current_Sum,
         VarAbs |-> rows[i].Var_Absoluta,
         VarPct |-> SafeFloat(rows[i].Var_pct)]]

----------------------------------------------------------------------------
(* Monthly series (analyze_yoy, lines 459-482; _build_hotel_series) *)

\* the month columns that have a prior-year column, in chronological order
WithPrev(months) ==
    LET Has(mc) == FindMonthByKey(months, PrevYearKey(mc)) # None
    IN SelectSeq(months, Has)

PrevOf(months, mc) == The(FindMonthByKey(months, PrevYearKey(mc)))

\* df_filtered[col].sum(): NaN cells are skipped
ColumnSum(rows, col) == SumSeq([i \in 1..Len(rows) |-> ToNumeric(rows[i].cells[col])])

\* the sum of a column holding text fails: float + str, or float("text")
ColumnSumRaises(rows, col) == \E i \in 1..Len(rows) : rows[i].cells[col].k = "text"

SeriesRaises(rows, months) ==
    \E i \in 1..Len(WithPrev(months)) :
        \/ ColumnSumRaises(rows, WithPrev(months)[i].col)
        \/ ColumnSumRaises(rows, PrevOf(months, WithPrev(months)[i]).col)

\* one item of series
SeriesItem(rows, months, mc) ==
    LET curr_total == ColumnSum(rows, mc.col)
        prev_total == ColumnSum(rows, PrevOf(months, mc).col)
    IN [key |-> MonthKey(mc), curr |-> curr_total, prev |-> prev_total,
        varPct |-> IF prev_total > 0
                   THEN Some(RatMulInt(Rat(curr_total - prev_total, prev_total), 100))
                   ELSE None]

\* a series that keeps only the latest month with a prior-year column
Series_LatestOnly(rows, months) ==
    IF WithPrev(months) = <<>> THEN <<>>
    ELSE << SeriesItem(rows, months, WithPrev(months)[Len(WithPrev(months))]) >>

Series(rows, months) ==
    [i \in 1..Len(WithPrev(months)) |-> SeriesItem(rows, months, WithPrev(months)[i])]

\* float(pd.to_numeric(cell, errors="coerce") or 0): a blank or text cell is NaN
CellFloat(cell) == IF cell.k = "num" THEN RatInt(cell.v) ELSE NaN

\* one item of a hotel's series
HotelItem(r, months, mc) ==
    LET curr_val == CellFloat(r.cells[mc.col])
        prev_val == CellFloat(r.cells[PrevOf(months, mc).col])
    IN [key |-> MonthKey(mc), curr |-> curr_val,
        varPct |-> IF RatGt(prev_val, RatInt(0))
                   THEN Some(IF IsNaN(curr_val) THEN NaN
                             ELSE RatMulInt(Rat(curr_val.n - prev_val.n, prev_val.n), 100))
                   ELSE None]

\* the names of a bucket's first ten rows, each once, in order
RECURSIVE TopNames(_, _)
TopNames(rows, seen) ==
    IF rows = <<>> THEN <<>>
    ELSE IF Head(rows).Cliente \in seen
         THEN TopNames(Tail(rows), seen)
         ELSE <<Head(rows).Cliente>> \o TopNames(Tail(rows), seen \cup {Head(rows).Cliente})

\* _build_hotel_series: for each name the series of the first row of that name
BuildHotelSeries(rows, months, bucket) ==
    LET names == TopNames(SubSeq(bucket, 1, IF Len(bucket) < 10 THEN Len(bucket) ELSE 10), {})
        First(name) == rows[CHOOSE i \in 1..Len(rows) :
                               /\ rows[i].Cliente = name
                               /\ \A j \in 1..(i - 1) : rows[j].Cliente # name]
    IN [n \in 1..Len(names) |->
          [name |-> names[n],
           items |-> [i \in 1..Len(WithPrev(months)) |->
                        HotelItem(First(names[n]), months, WithPrev(months)[i])]]]

----------------------------------------------------------------------------
(* Two-period alerts (analyze_yoy, lines 484-515) *)

PersistThresholdArg(q, alert_threshold) ==
    IF q.persist_threshold = None THEN alert_threshold ELSE The(q.persist_threshold)

RecoveryThresholdArg(q) ==
    IF q.recovery_threshold = None THEN 0 ELSE The(q.recovery_threshold)

\* np.where(prev != 0, (curr - prev) / prev * 100, np.nan) on coerced cells
MonthVarPct_ZeroIsZero(curr, prev) ==
    IF prev # 0 THEN RatMulInt(Rat(curr - prev, prev), 100)
    ELSE IF curr = 0 THEN RatInt(0) ELSE NaN

MonthVarPct(curr, prev) ==
    IF prev # 0 THEN RatMulInt(Rat(curr - prev, prev), 100) ELSE NaN

\* one row of alerts_df
AlertsDfRow(r, months, latest, prev_month, headers) ==
    [Cliente |-> r.Cliente,
     Ubicacion |-> IF "Ubicacion" \in headers THEN r.Ubicacion ELSE None,
     VarPctLast |-> MonthVarPct(ToNumeric(r.cells[latest.col]),
                                ToNumeric(r.cells[PrevOf(months, latest).col])),
     VarPctPrev |-> MonthVarPct(ToNumeric(r.cells[prev_month.col]),
                                ToNumeric(r.cells[PrevOf(months, prev_month).col]))]

PersistentMask(a, persist) ==
    /\ ~IsNaN(a.VarPctLast) /\ ~IsNaN(a.VarPctPrev)
    /\ RatLe(a.VarPctLast, RatInt(persist))
    /\ RatLe(a.VarPctPrev, RatInt(persist))

RecoveryMask(a, persist, recovery) ==
    /\ ~IsNaN(a.VarPctLast) /\ ~IsNaN(a.VarPctPrev)
    /\ RatLe(a.VarPctPrev, RatInt(persist))
    /\ RatGe(a.VarPctLast, RatInt(recovery))

IntelligentAlerts(rows, months, persist, recovery, headers) ==
    IF Len(months) >= 2
       /\ FindMonthByKey(months, PrevYearKey(months[Len(months)])) # None
       /\ FindMonthByKey(months, PrevYearKey(months[Len(months) - 1])) # None
    THEN LET alerts_df == [i \in 1..Len(rows) |->
                              AlertsDfRow(rows[i], months, months[Len(months)],
                                          months[Len(months) - 1], headers)]
             P(a) == PersistentMask(a, persist)
             R(a) == RecoveryMask(a, persist, recovery)
         IN [persistent |-> SelectSeq(alerts_df, P), recovery |-> SelectSeq(alerts_df, R)]
    ELSE [persistent |-> <<>>, recovery |-> <<>>]

----------------------------------------------------------------------------
(* Churn (analyze_yoy, lines 559-575) *)

\* active = sales > 0 on coerced cells
ChurnActive(r, mc) == ToNumeric(r.cells[mc.col]) > 0

\* np.where(has_any, np.argmax(active[:, ::-1], axis=1), len(month_cols))
MonthsInactive(r, months) ==
    LET act == {i \in 1..Len(months) : ChurnActive(r, months[i])}
    IN IF act = {} THEN Len(months)
       ELSE Len(months) - (CHOOSE i \in act : \A j \in act : j <= i)

ChurnList(rows, months, churn_months, headers) ==
    IF months = <<>> THEN <<>>
    ELSE LET churn_df == [i \in 1..Len(rows) |->
                            [Cliente |-> rows[i].Cliente,
                             Ubicacion |-> IF "Ubicacion" \in headers
                                           THEN rows[i].Ubicacion ELSE None,
                             MonthsInactive |-> MonthsInactive(rows[i], months)]]
             In(c) == c.MonthsInactive >= churn_months
         IN SelectSeq(churn_df, In)

----------------------------------------------------------------------------
(* Cohorts (analyze_yoy, lines 577-624) *)

\* val and val > 0, with val = pd.to_numeric(cell, errors="coerce")
CohortActive(r, mc) == RatGt(CellFloat(r.cells[mc.col]), RatInt(0))

\* the position in month_cols of the first active month of a row, 0 if none
FirstActive(r, months) ==
    LET act == {i \in 1..Len(months) : CohortActive(r, months[i])}
    IN IF act = {} THEN 0 ELSE CHOOSE i \in act : \A j \in act : i <= j

\* cohort_key of a row: Optional[month key]
CohortKey(r, months) ==
    IF FirstActive(r, months) = 0 THEN None
    ELSE Some(MonthKey(months[FirstActive(r, months)]))

\* the keys of cohort_map in insertion order
RECURSIVE CohortKeys(_, _, _)
CohortKeys(rows, months, seen) ==
    IF rows = <<>> THEN <<>>
    ELSE LET k == CohortKey(Head(rows), months)
         IN IF k = None \/ The(k) \in seen
            THEN CohortKeys(Tail(rows), months, seen)
            ELSE <<The(k)>> \o CohortKeys(Tail(rows), months, seen \cup {The(k)})

\* the sum of floats, NaN as soon as one of them is NaN
SumFloats(fs) ==
    IF \E i \in 1..Len(fs) : IsNaN(fs[i]) THEN NaN
    ELSE RatInt(SumSeq([i \in 1..Len(fs) |-> fs[i].n]))

\* round(x, 1): the nearest tenth, ties to the even tenth
Round1(x) ==
    IF IsNaN(x) THEN NaN
    ELSE LET f == (10 * x.n) \div x.d
             twice == 2 * (10 * x.n - f * x.d)
         IN IF twice > x.d \/ (twice = x.d /\ f % 2 = 1) THEN Rat(f + 1, 10)
            ELSE Rat(f, 10)

\* one entry of cohort_rows
CohortRow(key, members, months) ==
    LET size == Len(members)
        base_month == The(FindMonthByKey(months, key))
        base_rev == SumFloats([i \in 1..size |-> CellFloat(members[i].cells[base_month.col])])
        Rev(mc) == SumFloats([i \in 1..size |-> CellFloat(members[i].cells[mc.col])])
        Count(mc) == Cardinality({i \in 1..size :
                                     RatGt(CellFloat(members[i].cells[mc.col]), RatInt(0))})
    IN [cohort |-> key,
        size |-> size,
        active |-> [i \in 1..Len(months) |->
                      IF DateOf(months[i]) < DateOf(base_month) THEN None
                      ELSE Some(Round1(Rat(Count(months[i]) * 100, size)))],
        revenue |-> [i \in 1..Len(months) |->
                      IF DateOf(months[i]) < DateOf(base_month) THEN None
                      ELSE Some(Round1(IF RatGt(base_rev, RatInt(0))
                                       THEN (IF IsNaN(Rev(months[i])) THEN NaN
                                             ELSE Rat(Rev(months[i]).n * 100, base_rev.n))
                                       ELSE RatInt(0)))]]

\* insertion of a cohort row into a list sorted by key ascending
RECURSIVE InsertByCohort(_, _)
InsertByCohort(sorted, c) ==
    IF sorted = <<>> THEN <<c>>
    ELSE IF DateOf([year |-> c.cohort[1], month |-> c.cohort[2]])
              < DateOf([year |-> Head(sorted).cohort[1], month |-> Head(sorted).cohort[2]])
         THEN <<c>> \o sorted
         ELSE <<Head(sorted)>> \o InsertByCohort(Tail(sorted), c)

RECURSIVE SortByCohort(_)
SortByCohort(cs) ==
    IF cs = <<>> THEN <<>>
    ELSE InsertByCohort(SortByCohort(SubSeq(cs, 1, Len(cs) - 1)), cs[Len(cs)])

\* the "cohorts" entry of the envelope
Cohorts(rows, months) ==
    LET keys == CohortKeys(rows, months, {})
        Of(k) == LET In(r) == CohortKey(r, months) = Some(k) IN SelectSeq(rows, In)
    IN [columns |-> [i \in 1..Len(months) |-> MonthKey(months[i])],
        rows |-> SortByCohort([i \in 1..Len(keys) |-> CohortRow(keys[i], Of(keys[i]), months)])]

----------------------------------------------------------------------------
(* Narrative summary (_build_ai_summary, lines 704-897) *)

\* what the chat-completions call can come to
LlmReplies == {"ok", "http_error", "timeout", "invalid_json", "non_object", "empty_headline"}

\* float(os.getenv("OPENAI_TIMEOUT_SECONDS", "12")) is evaluated outside the try
LlmRaises(e) == e.api_key /\ e.timeout = "malformed"

\* _build_ai_summary_llm: the pair (llm, llm_error) as [llm, error]
BuildAiSummaryLlm(e, reply) ==
    IF ~e.api_key THEN [llm |-> None, error |-> Some("missing_openai_api_key")]
    ELSE IF reply = "non_object" THEN [llm |-> None, error |-> Some("invalid_llm_json")]
    ELSE IF reply = "empty_headline" THEN [llm |-> None, error |-> Some("empty_headline")]
    ELSE IF reply = "ok"
         THEN [llm |-> Some([source |-> "llm", headline |-> "llm", conclusions |-> <<"llm">>]),
               error |-> None]
    ELSE [llm |-> None, error |-> Some("exc")]   \* str(exc) of what the try caught

\* _build_ai_summary_heuristic
BuildAiSummaryHeuristic(total_var_pct, alerts, growth) ==
    [source |-> "heuristic",
     headline |-> IF RatGe(total_var_pct, RatInt(0)) THEN "crecimiento" ELSE "caida",
     conclusions |-> <<"facturacion">>
                       \o (IF alerts # <<>> THEN <<"mayor caida">> ELSE <<>>)
                       \o (IF growth # <<>> THEN <<"mayor crecimiento">> ELSE <<>>)]

\* _build_ai_summary
BuildAiSummary(total_var_pct, alerts, growth, llm) ==
    IF llm.llm # None
    THEN [source |-> The(llm.llm).source, headline |-> The(llm.llm).headline,
          conclusions |-> The(llm.llm).conclusions, llmFallbackReason |-> None]
    ELSE LET h == BuildAiSummaryHeuristic(total_var_pct, alerts, growth)
         IN [source |-> h.source, headline |-> h.headline,
             conclusions |-> h.conclusions, llmFallbackReason |-> llm.error]

----------------------------------------------------------------------------
(* The envelope (analyze_yoy, lines 626-700) *)

\* the dict returned by analyze_yoy
BuildEnvelope(rows, q, mode, month_key, cc, headers, months, llm) ==
    LET total_current == SumField(rows, "Current_Sum")
        total_previous == SumField(rows, "Previous_Sum")
        alert_threshold == AlertThresholdArg(q)
        alerts == Alerts(rows, alert_threshold)
        growth == Growth(rows)
        new_hotels == NewHotels(rows)
        lost_hotels == LostHotels(rows)
        persist == PersistThresholdArg(q, alert_threshold)
        recovery == RecoveryThresholdArg(q)
        locations == IF "Ubicacion" \in headers THEN Rollup(rows, "Ubicacion") ELSE <<>>
    IN [meta |-> [mode |-> mode,
                  monthKey |-> IF Truthy(month_key) THEN The(month_key)
                               ELSE MonthKey(cc[Len(cc)]),
                  alertThreshold |-> alert_threshold,
                  availableMonths |-> BuildAvailableMonths(months),
                  intelligentThresholds |-> [persistent |-> persist, recovery |-> recovery],
                  churnMonths |-> ChurnMonthsArg(q)],
        summary |-> [totalPrev |-> total_previous,
                     totalCurr |-> total_current,
                     totalVar |-> total_current - total_previous,
                     totalVarPct |-> TotalVarPct(total_current, total_previous),
                     alertsCount |-> Len(alerts),
                     alertsImpact |-> SumField(alerts, "Var_Absoluta"),
                     growthCount |-> Len(growth),
                     growthImpact |-> SumField(growth, "Var_Absoluta"),
                     newCount |-> Len(new_hotels),
                     newRevenue |-> SumField(new_hotels, "Current_Sum"),
                     lostCount |-> Len(lost_hotels),
                     lostRevenue |-> SumField(lost_hotels, "Previous_Sum")],
        tables |-> [alerts |-> TableRows(alerts, headers),
                    growth |-> TableRows(growth, headers),
                    new |-> TableRows(new_hotels, headers),
                    lost |-> TableRows(lost_hotels, headers),
                    locations |-> locations],
        series |-> Series(rows, months),
        hotelSeries |-> [alerts |-> BuildHotelSeries(rows, months, alerts),
                         growth |-> BuildHotelSeries(rows, months, growth)],
        intelligentAlerts |-> IntelligentAlerts(rows, months, persist, recovery, headers),
        clusters |-> [byCluster |-> Rollup(rows, "Cluster"),
                      byCountry |-> IF CountryCol(headers) # None
                                    THEN Rollup(rows, "Country") ELSE <<>>,
                      byArea |-> locations],
        churn |-> ChurnList(rows, months, ChurnMonthsArg(q), headers),
        cohorts |-> Cohorts(rows, months),
        aiSummary |-> BuildAiSummary(TotalVarPct(total_current, total_previous),
                                     alerts, growth, llm)]

----------------------------------------------------------------------------
(* The uploads and requests a process may be sent *)

\* the i-th upload: one sheet of two months over two years with one data row
\* the form values of a request that sets none
DefaultReq ==
    [filename_ext |-> "xlsx", alert_threshold |-> Some(-30),
     mode |-> Some("month"), month_key |-> None,
     compare_mode |-> None, compare_month_key |-> None,
     search |-> None, location |-> None,
     impact_min |-> None, impact_max |-> None, var_min |-> None, var_max |-> None,
     persist_threshold |-> None, recovery_threshold |-> None, churn_months |-> Some(9)]

ServerFile(i) ==
    LET cols == <<LabelMonYear(1, 2023), LabelMonYear(1, 2024),
                  LabelMonYear(2, 2023), LabelMonYear(2, 2024)>>
        vals == <<Num(i), Num(1), Num(2), Num(i + 1)>>
    IN [headers |-> {"Cliente", "Hotel - Code", "Ubicacion", "Pais"},
        columns |-> cols,
        rows |-> << [Cliente |-> Some(<<"a", ":", "x">>), Code |-> Some(<<"k">>),
                     Ubicacion |-> Some(<<"L1">>), Country |-> Some(<<"B">>),
                     cells |-> [l \in Range(cols) |->
                                  vals[CHOOSE j \in 1..4 : cols[j] = l]]] >>]

ServerFiles == {ServerFile(i) : i \in 1..MaxFiles}

\* more distinct uploads than the cache can hold
CacheFiles == {ServerFile(i) : i \in 1..(_EXCEL_CACHE_MAX + MaxFiles - 1)}

\* the file names an upload may come under, with and without a compare call
ServerRequests ==
    {[filename_ext |-> x, alert_threshold |-> Some(-30),
      mode |-> Some("month"), month_key |-> None,
      compare_mode |-> cm, compare_month_key |-> None,
      search |-> None, location |-> None,
      impact_min |-> None, impact_max |-> None, var_min |-> None, var_max |-> None,
      persist_threshold |-> None, recovery_threshold |-> None, churn_months |-> Some(9)] :
        x \in {"xlsx", "xls", "csv"}, cm \in {None, Some("ytd")}}

\* an upload under a supported name with a compare call, and under an
\* unsupported name
CacheRequests ==
    {q \in ServerRequests :
        \/ q.filename_ext = "xlsx" /\ q.compare_mode # None
        \/ q.filename_ext = "csv" /\ q.compare_mode = None}

----------------------------------------------------------------------------
(* The request pipeline *)

TruthyStr(o) == o # None /\ The(o) # ""

\* pd.read_excel: the decoded table of the uploaded bytes
Decode(file) == [headers |-> file.headers, columns |-> file.columns, rows |-> file.rows]

EmptyDf == [headers |-> {}, columns |-> <<>>, rows |-> <<>>]

AnalysisError(msg) == Some([type |-> "AnalysisError", msg |-> msg])

\* mode and month_key arguments of the running analyze_yoy call (main.py)
CallMode == IF call = "primary"
            THEN (IF TruthyStr(req.mode) THEN The(req.mode) ELSE "month")
            ELSE The(req.compare_mode)
CallMonthKey == IF call = "primary" THEN req.month_key ELSE req.compare_month_key

\* the form values behind the other keyword arguments of the running call:
\* the compare call of analyze_netsuite passes no churn_months (main.py lines
\* 294-308), so analyze_yoy takes its default
CallArgs == IF endpoint = "analyze_netsuite" /\ call = "compare"
            THEN [req EXCEPT !.churn_months = None]
            ELSE req

Raise(e) ==
    /\ error' = e
    /\ pc' = "raised"

\* the content keys by last use, after a use of key
Touch(u, key) == LET NotKey(k) == k # key IN Append(SelectSeq(u, NotKey), key)

\* _read_excel
ReadExcel ==
    /\ pc = "start"
    /\ LET cached == ExcelCacheGet(cache, table)
       IN IF cached # None
          THEN /\ cache' = MoveToEnd(cache, table)
               /\ df' = DeepCopy(The(cached)).df
               /\ shared' = DeepCopy(The(cached)).shared
               /\ used' = Touch(used, table)
               /\ pc' = "read"
               /\ error' = error
          ELSE IF req.filename_ext \notin {"xls", "xlsx"}
          THEN /\ Raise(AnalysisError("Formato no soportado. Usa .xls o .xlsx"))
               /\ UNCHANGED <<cache, df, shared, used>>
          ELSE /\ cache' = ExcelCacheSet(cache, table, Decode(table))
               /\ df' = DeepCopy(Decode(table)).df
               /\ shared' = DeepCopy(Decode(table)).shared
               /\ used' = Touch(used, table)
               /\ pc' = "read"
               /\ error' = error
    /\ UNCHANGED <<pending, env, endpoint, req, table, call, month_cols, curr_cols, prev_cols,
                   df_filtered, envelope, result, response>>

\* _sanitize_df
KeepRow(r) == r.Cliente # None /\ TextStrip(AsStr(r.Cliente)) \notin {<<"Ventas">>, <<"Total">>}

SanitizeDf ==
    /\ pc = "read"
    /\ IF "Cliente" \notin df.headers
       THEN /\ Raise(AnalysisError("No se encontro la columna 'Cliente'. Revisa el archivo."))
            /\ UNCHANGED <<df, shared>>
       ELSE /\ df' = [df EXCEPT !.rows = SelectSeq(df.rows, KeepRow)]
            /\ shared' = FALSE
            /\ pc' = "sanitized"
            /\ error' = error
    /\ UNCHANGED <<pending, used, env, endpoint, req, table, call, month_cols, curr_cols, prev_cols,
                   df_filtered, envelope, result, response, cache>>

\* analyze_yoy line 336-337
FindMonths ==
    /\ pc = "sanitized"
    /\ month_cols' = FindMonthColumns(df.columns)
    /\ pc' = "months"
    /\ UNCHANGED <<shared, pending, used, env, endpoint, req, table, call, df, curr_cols, prev_cols,
                   df_filtered, envelope, result, error, response, cache>>

\* analyze_yoy line 338
ResolvePeriod ==
    /\ pc = "months"
    /\ LET p == PeriodColumns(month_cols, CallMode, CallMonthKey)
       IN IF p.ok
          THEN /\ curr_cols' = p.curr
               /\ prev_cols' = p.prev
               /\ pc' = "resolved"
               /\ error' = error
          ELSE /\ Raise(AnalysisError(p.err))
               /\ UNCHANGED <<curr_cols, prev_cols>>
    /\ UNCHANGED <<shared, pending, used, env, endpoint, req, table, call, df, month_cols,
                   df_filtered, envelope, result, response, cache>>

\* analyze_yoy lines 342-366
ComputeMetrics ==
    /\ pc = "resolved"
    /\ df' = [df EXCEPT !.rows =
                [i \in 1..Len(df.rows) |-> WithMetrics(df.rows[i], curr_cols, prev_cols)]]
    /\ cache' = IF shared
                THEN [i \in 1..Len(cache) |->
                        IF cache[i].key = table THEN [cache[i] EXCEPT !.df = df'] ELSE cache[i]]
                ELSE cache
    /\ pc' = "metrics"
    /\ UNCHANGED <<shared, pending, used, env, endpoint, req, table, call, month_cols, curr_cols, prev_cols,
                   df_filtered, envelope, result, error, response>>

\* analyze_yoy line 395
FilterRows ==
    /\ pc = "metrics"
    /\ IF FilterRaises(CallArgs, df.headers)
       THEN /\ Raise(Some([type |-> "AttributeError", msg |-> "'str' object has no attribute 'astype'"]))
            /\ df_filtered' = df_filtered
       ELSE /\ df_filtered' = ApplyFilters(df.rows, CallArgs, df.headers)
            /\ pc' = "filtered"
            /\ error' = error
    /\ UNCHANGED <<shared, pending, used, env, endpoint, req, table, call, df, month_cols, curr_cols, prev_cols,
                   envelope, result, response, cache>>

\* analyze_yoy lines 404-700
ReturnEnvelope ==
    /\ pc = "filtered"
    /\ IF SeriesRaises(df_filtered, month_cols)
       THEN /\ Raise(Some([type |-> "TypeError",
                           msg |-> "unsupported operand type(s) for +: 'float' and 'str'"]))
            /\ envelope' = envelope
       ELSE IF LlmRaises(env)
       THEN /\ Raise(Some([type |-> "ValueError",
                           msg |-> "could not convert string to float"]))
            /\ envelope' = envelope
       ELSE /\ \E reply \in IF env.api_key THEN LlmReplies ELSE {"none"} :
                 envelope' = Some(BuildEnvelope(df_filtered, CallArgs, CallMode, CallMonthKey,
                                                curr_cols, df.headers, month_cols,
                                                BuildAiSummaryLlm(env, reply)))
            /\ pc' = "returned"
            /\ error' = error
    /\ UNCHANGED <<shared, pending, used, env, endpoint, req, table, call, df, month_cols, curr_cols, prev_cols,
                   df_filtered, result, response, cache>>

\* main.py lines 87-104: the second call of analyze_yoy
StartCompare ==
    /\ pc = "returned"
    /\ call = "primary"
    /\ TruthyStr(req.compare_mode)
    /\ result' = Some([primary |-> The(envelope), compare |-> None])
    /\ call' = "compare"
    /\ pc' = "start"
    /\ df' = EmptyDf
    /\ month_cols' = <<>>
    /\ curr_cols' = <<>>
    /\ prev_cols' = <<>>
    /\ df_filtered' = <<>>
    /\ envelope' = None
    /\ shared' = FALSE
    /\ UNCHANGED <<pending, used, env, endpoint, req, table, error, response, cache>>

\* main.py line 105
Respond ==
    /\ pc = "returned"
    /\ call = "compare" \/ ~TruthyStr(req.compare_mode)
    /\ result' = IF call = "primary"
                 THEN Some([primary |-> The(envelope), compare |-> None])
                 ELSE Some([The(result) EXCEPT !.compare = envelope])
    /\ response' = Some([status |-> 200, body |-> result', detail |-> ""])
    /\ pc' = "done"
    /\ UNCHANGED <<shared, pending, used, env, endpoint, req, table, call, df, month_cols, curr_cols, prev_cols,
                   df_filtered, envelope, error, cache>>

\* main.py lines 106-110: the status code of an exception
StatusOf_Always500(e) == 500

StatusOf(e) == IF e.type = "AnalysisError" THEN 400 ELSE 500

RespondError ==
    /\ pc = "raised"
    /\ response' = Some([status |-> StatusOf(The(error)),
                         body |-> None, detail |-> The(error).msg])
    /\ pc' = "done"
    /\ UNCHANGED <<shared, pending, used, env, endpoint, req, table, call, df, month_cols, curr_cols, prev_cols,
                   df_filtered, envelope, result, error, cache>>

Next ==
    \/ ReadExcel
    \/ SanitizeDf
    \/ FindMonths
    \/ ResolvePeriod
    \/ ComputeMetrics
    \/ FilterRows
    \/ ReturnEnvelope
    \/ StartCompare
    \/ Respond
    \/ RespondError

\* main.py lines 51-71: the process takes up its next request; the cache and
\* the environment are the process's, everything else is the request's
NewRequest ==
    /\ pc = "done"
    /\ \E q \in ServerRequests, t \in ServerFiles :
          /\ req' = q
          /\ table' = t
    /\ pc' = "start"
    /\ call' = "primary"
    /\ df' = EmptyDf
    /\ month_cols' = <<>>
    /\ curr_cols' = <<>>
    /\ prev_cols' = <<>>
    /\ df_filtered' = <<>>
    /\ envelope' = None
    /\ result' = None
    /\ error' = None
    /\ response' = None
    /\ shared' = FALSE
    /\ UNCHANGED <<pending, used, env, endpoint, cache>>

\* a process serving one request after another
NextServer ==
    \/ Next
    \/ NewRequest

\* the handler starts on the request q with the uploaded bytes t
Begin(q, t) ==
    /\ req' = q
    /\ table' = t
    /\ pc' = "start"
    /\ call' = "primary"
    /\ df' = EmptyDf
    /\ month_cols' = <<>>
    /\ curr_cols' = <<>>
    /\ prev_cols' = <<>>
    /\ df_filtered' = <<>>
    /\ envelope' = None
    /\ result' = None
    /\ error' = None
    /\ response' = None
    /\ shared' = FALSE

\* the next request of a process that is sent many distinct uploads
NewUpload ==
    /\ pc = "done"
    /\ \E q \in CacheRequests, t \in CacheFiles : Begin(q, t)
    /\ UNCHANGED <<pending, used, env, endpoint, cache>>

NextCache ==
    \/ Next
    \/ NewUpload

\* the requests a process has in flight at one time
MaxInFlight == 2

\* main.py line 70: a request arrives while another is in flight; its handler
\* runs up to `await file.read()` and yields to the event loop
Accept ==
    /\ Len(pending) + (IF pc = "done" THEN 0 ELSE 1) < MaxInFlight
    /\ \E q \in CacheRequests, t \in ServerFiles :
          pending' = Append(pending, [req |-> q, table |-> t])
    /\ UNCHANGED <<env, endpoint, req, table, pc, call, df, month_cols, curr_cols, prev_cols,
                   df_filtered, envelope, result, error, response, cache, shared, used>>

\* main.py lines 71-110: the event loop resumes one waiting handler, in any
\* order; the handler has no further await, so it runs to its response
\* before another handler is resumed
Dispatch ==
    /\ pc = "done"
    /\ \E i \in 1..Len(pending) :
          /\ Begin(pending[i].req, pending[i].table)
          /\ pending' = [j \in 1..(Len(pending) - 1) |->
                           IF j < i THEN pending[j] ELSE pending[j + 1]]
    /\ UNCHANGED <<used, env, endpoint, cache>>

NextLoop ==
    \/ Next
    \/ Accept
    \/ Dispatch

\* no upload: the bytes of a NetSuite request come from the RESTlet
NoTable == [headers |-> {}, columns |-> <<>>, rows |-> <<>>]

\* the form values the three JSON routes may be sent
ApiRequests ==
    { DefaultReq,
      [DefaultReq EXCEPT !.mode = Some("rolling3")],
      [DefaultReq EXCEPT !.compare_mode = Some("ytd"), !.churn_months = Some(2),
                         !.alert_threshold = Some(-50)] }

\* a request arrives at /api/analyze, /api/analyze/netsuite or /api/netsuite/test
NewApiRequest ==
    /\ pc = "done"
    /\ \E e \in {"analyze", "analyze_netsuite", "netsuite_test"}, q \in ApiRequests,
          t \in ServerFiles :
          /\ endpoint' = e
          /\ req' = q
          /\ table' = IF e = "analyze" THEN t ELSE NoTable
          /\ pc' = CASE e = "analyze" -> "start"
                     [] e = "analyze_netsuite" -> "fetch"
                     [] OTHER -> "test"
    /\ call' = "primary"
    /\ df' = EmptyDf
    /\ month_cols' = <<>>
    /\ curr_cols' = <<>>
    /\ prev_cols' = <<>>
    /\ df_filtered' = <<>>
    /\ envelope' = None
    /\ result' = None
    /\ error' = None
    /\ response' = None
    /\ shared' = FALSE
    /\ UNCHANGED <<pending, used, env, cache>>

HTTPException(status, detail) ==
    [type |-> "HTTPException", status |-> status, msg |-> detail]

\* main.py lines 314-320: the except clauses of analyze_netsuite, for an
\* HTTPException raised in its body (except HTTPException: raise)
AnalyzeNetsuiteCatch(e) == [status |-> e.status, body |-> None, detail |-> e.msg]

\* main.py lines 243-272: the client and the data of analyze_netsuite
FetchNetsuite ==
    /\ pc = "fetch"
    /\ \/ \E e \in { HTTPException(500, "Configuracion de NetSuite incompleta"),
                      HTTPException(502, "Error al conectar con NetSuite"),
                      HTTPException(404, "NetSuite no devolvio datos") } :
             /\ error' = Some(e)
             /\ response' = Some(AnalyzeNetsuiteCatch(e))
             /\ pc' = "done"
             /\ table' = table
       \/ \E t \in ServerFiles :
             /\ table' = t
             /\ pc' = "start"
             /\ UNCHANGED <<error, response>>
    /\ UNCHANGED <<shared, pending, used, env, endpoint, req, call, df, month_cols,
                   curr_cols, prev_cols, df_filtered, envelope, result, cache>>

\* netsuite_client.py lines 182-201: what test_connection returns
TestConnectionResults ==
    { [success |-> TRUE, message |-> "Conexion exitosa"],
      [success |-> FALSE, message |-> "Error de conexion con NetSuite"] }

\* main.py lines 336-342: the except clauses of test_netsuite, in order;
\* HTTPException is an Exception and not a ValueError
TestNetsuiteCatch(e) ==
    IF e.type = "ValueError"
    THEN [status |-> 500, body |-> None, detail |-> "Configuracion de NetSuite incompleta"]
    ELSE [status |-> 500, body |-> None, detail |-> "Error"]

\* main.py lines 323-342: test_netsuite
TestNetsuite ==
    /\ pc = "test"
    /\ \/ LET e == [type |-> "ValueError", status |-> 0,
                     msg |-> "Faltan variables de entorno requeridas para NetSuite"]
          IN /\ result' = None
             /\ error' = Some(e)
             /\ response' = Some(TestNetsuiteCatch(e))
       \/ \E r \in TestConnectionResults :
             /\ result' = Some(r)
             /\ IF r.success
                THEN /\ error' = None
                     /\ response' = Some([status |-> 200, body |-> Some(r), detail |-> ""])
                ELSE /\ error' = Some(HTTPException(502, r.message))
                     /\ response' = Some(TestNetsuiteCatch(HTTPException(502, r.message)))
    /\ pc' = "done"
    /\ UNCHANGED <<shared, pending, used, env, endpoint, req, table, call, df, month_cols,
                   curr_cols, prev_cols, df_filtered, envelope, cache>>

\* a process serving its JSON routes, one request after another
NextApi ==
    \/ Next
    \/ NewApiRequest
    \/ FetchNetsuite
    \/ TestNetsuite

----------------------------------------------------------------------------
(* Initial states *)

AllHeaders == {"Cliente", "Hotel - Code", "Ubicacion", "Pais"}

\* the calendar months a table may have a column for, in table order
\* (the order of the columns in the sheet is not chronological)
Slots ==
    << <<2024, 1>>, <<2023, 1>>, <<2024, 2>>, <<2023, 2>>, <<2024, 3>>, <<2023, 3>>,
       <<2022, 1>>, <<2022, 2>>, <<2022, 3>>, <<2024, 4>>, <<2023, 4>>, <<2022, 4>> >>

UniverseKeys == {Slots[i] : i \in 1..MaxCols}
UniverseLabels == [i \in 1..MaxCols |-> LabelMonYear(Slots[i][2], Slots[i][1])]
RecentLabels == {LabelMonYear(k[2], k[1]) : k \in {u \in UniverseKeys : u[1] >= 2023}}

\* a second column for a month of 2024, written in the other layout
DupLabels == {LabelYearMon(k[2], k[1]) : k \in {u \in UniverseKeys : u[1] = 2024}}

PickLabels(S) == LET In(l) == l \in S IN SelectSeq(UniverseLabels, In)

TableColumns ==
    {PickLabels(S) : S \in SUBSET Range(UniverseLabels)}
      \cup {Append(PickLabels(S), d) : S \in SUBSET RecentLabels, d \in DupLabels}

MonthKeys == {None, Some(<<>>), Some(<<0, 0>>)} \cup {Some(k) : k \in UniverseKeys}
Modes == {"month", "ytd", "rolling3", "rolling6", "weekly"}

PlainRow(columns) ==
    [Cliente |-> Some(<<"a", ":", "x">>), Code |-> Some(<<"k">>),
     Ubicacion |-> Some(<<"L1">>), Country |-> Some(<<"X">>),
     cells |-> [l \in Range(columns) |-> Num(1)]]

PeriodRequests ==
    {[DefaultReq EXCEPT !.mode = Some(m), !.month_key = k] : m \in Modes, k \in MonthKeys}
      \cup {[DefaultReq EXCEPT !.compare_mode = Some(m), !.compare_month_key = k] :
              m \in Modes, k \in {None, Some(<<2024, 1>>)}}

\* no API key configured, the default timeout
DefaultEnv == [api_key |-> FALSE, timeout |-> "12"]

InitCommon ==
    /\ pc = "start"
    /\ call = "primary"
    /\ df = EmptyDf
    /\ month_cols = <<>>
    /\ curr_cols = <<>>
    /\ prev_cols = <<>>
    /\ df_filtered = <<>>
    /\ envelope = None
    /\ result = None
    /\ error = None
    /\ response = None
    /\ cache = <<>>
    /\ shared = FALSE
    /\ pending = <<>>
    /\ used = <<>>
    /\ endpoint = "analyze"

\* requests that exercise period resolution over every table layout
InitPeriod ==
    /\ req \in PeriodRequests
    /\ \E cols \in TableColumns :
          table = [headers |-> AllHeaders, columns |-> cols, rows |-> <<PlainRow(cols)>>]
    /\ env = DefaultEnv
    /\ InitCommon

SpecPeriod == InitPeriod /\ [][Next]_vars

----------------------------------------------------------------------------
(* Initial states for the metrics: a fixed sheet of two months over two years *)

MetricColumns ==
    <<LabelMonYear(1, 2023), LabelMonYear(1, 2024), LabelMonYear(2, 2023), LabelMonYear(2, 2024)>>

\* cell values of one row: ene 2023, ene 2024, feb 2023, feb 2024
RowCells ==
    { <<Num(0), Num(0), Num(0), Num(0)>>,
      <<Num(0), Num(1), Num(0), Num(2)>>,
      <<Num(1), Num(0), Num(2), Num(0)>>,
      <<Num(1), Num(2), Num(1), Num(2)>>,
      <<Num(2), Num(1), Num(2), Num(1)>>,
      <<Num(-1), Num(1), Num(-1), Num(0)>>,
      <<Num(1), Num(1), Num(-1), Num(-1)>>,
      <<Blank, Num(1), TextCell, Num(2)>>,
      <<Num(0), Num(-1), Num(0), Num(-2)>>,
      <<Num(3), Num(1), Num(1), Num(3)>> }

\* name, code, location and country of the i-th data row
RowProfile(i) ==
    CASE i % 3 = 1 -> [Cliente |-> Some(<<"a", ":", "x">>), Code |-> Some(<<"k">>),
                       Ubicacion |-> Some(<<"L1">>), Country |-> Some(<<"B">>)]
      [] i % 3 = 2 -> [Cliente |-> Some(<<"a", " ", ":", "y">>), Code |-> Some(<<"m">>),
                       Ubicacion |-> Some(<<"L2">>), Country |-> Some(<<"B">>)]
      [] OTHER     -> [Cliente |-> Some(<<"b">>), Code |-> None,
                       Ubicacion |-> Some(<<"L1">>), Country |-> Some(<<"c">>)]

MetricRow(i, c) ==
    [Cliente |-> RowProfile(i).Cliente, Code |-> RowProfile(i).Code,
     Ubicacion |-> RowProfile(i).Ubicacion, Country |-> RowProfile(i).Country,
     cells |-> [l \in Range(MetricColumns) |->
                  c[CHOOSE j \in 1..Len(MetricColumns) : MetricColumns[j] = l]]]

\* the subtotal row and the blank row every sheet ends with
TotalRow ==
    [Cliente |-> Some(<<" ", "Total">>), Code |-> None, Ubicacion |-> None, Country |-> None,
     cells |-> [l \in Range(MetricColumns) |-> Num(9)]]
BlankRow ==
    [Cliente |-> None, Code |-> None, Ubicacion |-> Some(<<"L1">>), Country |-> None,
     cells |-> [l \in Range(MetricColumns) |-> Num(7)]]

MetricRows ==
    UNION {{[i \in 1..n |-> MetricRow(i, f[i])] \o <<TotalRow, BlankRow>> :
              f \in [1..n -> RowCells]} : n \in 1..MaxRows}

FilterNames == {"search", "location", "impact_min", "impact_max", "var_min", "var_max"}

FilterReq(base, on) ==
    [base EXCEPT !.search = IF "search" \in on THEN Some(<<" ", "B">>) ELSE None,
                 !.location = IF "location" \in on THEN Some(<<"L1">>) ELSE None,
                 !.impact_min = IF "impact_min" \in on THEN Some(1) ELSE None,
                 !.impact_max = IF "impact_max" \in on THEN Some(2) ELSE None,
                 !.var_min = IF "var_min" \in on THEN Some(-50) ELSE None,
                 !.var_max = IF "var_max" \in on THEN Some(100) ELSE None]

MetricRequests ==
    {FilterReq([DefaultReq EXCEPT !.compare_mode = cm[1], !.compare_month_key = cm[2]], on) :
        cm \in {<<None, None>>, <<Some("ytd"), None>>, <<Some("month"), Some(<<2024, 1>>)>>},
        on \in {o \in SUBSET FilterNames : Cardinality(o) <= MaxFilters}}

HeaderSets == {AllHeaders, {"Cliente"}}

InitMetrics ==
    /\ req \in MetricRequests
    /\ \E rows \in MetricRows, h \in HeaderSets :
          table = [headers |-> h, columns |-> MetricColumns, rows |-> rows]
    /\ env = DefaultEnv
    /\ InitCommon

SpecMetrics == InitMetrics /\ [][Next]_vars

----------------------------------------------------------------------------
(* Initial states for buckets, two-period alerts, churn and cohorts: sheets  *)
(* over January and February of two years, in three column layouts          *)

\* the months a sheet may have a column for
HistoryMonths == << <<2023, 1>>, <<2024, 1>>, <<2023, 2>>, <<2024, 2>> >>

\* the columns of a sheet, in sheet order, as positions in HistoryMonths
HistoryLayouts == { <<1, 2, 3, 4>>, <<2, 4, 3>>, <<4, 3>> }

HistoryLabel(i) == LabelMonYear(HistoryMonths[i][2], HistoryMonths[i][1])

\* cell values of one row: ene 2023, ene 2024, feb 2023, feb 2024
HistoryCells ==
    { <<Num(0), Num(0), Num(0), Num(0)>>,
      <<Num(1), Num(0), Num(0), Num(0)>>,
      <<Num(0), Num(0), Num(6000), Num(9000)>>,
      <<Num(0), Num(0), Num(10000), Num(13001)>>,
      <<Num(0), Num(0), Num(-100), Num(4000)>>,
      <<Num(2), Num(1), Num(2), Num(1)>>,
      <<Num(2), Num(1), Num(1), Num(1)>>,
      <<Num(0), Num(1), Num(0), Num(2)>>,
      <<Num(0), Num(0), Num(0), Num(5000)>>,
      <<Num(1), Num(0), Num(2), Num(0)>>,
      <<Num(1), Num(-1), Num(0), Num(0)>>,
      <<Num(-1), Num(0), Num(1), Blank>>,
      <<Num(1), Blank, Num(1), Num(1)>> }

HistoryRow(i, c, layout) ==
    [Cliente |-> RowProfile(i).Cliente, Code |-> RowProfile(i).Code,
     Ubicacion |-> RowProfile(i).Ubicacion, Country |-> RowProfile(i).Country,
     cells |-> [l \in {HistoryLabel(layout[j]) : j \in 1..Len(layout)} |->
                  c[CHOOSE j \in 1..4 : HistoryLabel(j) = l]]]

HistoryTables ==
    UNION {{[headers |-> AllHeaders,
             columns |-> [j \in 1..Len(layout) |-> HistoryLabel(layout[j])],
             rows |-> [i \in 1..n |-> HistoryRow(i, f[i], layout)]] :
              f \in [1..n -> HistoryCells], layout \in HistoryLayouts} : n \in 1..MaxRows}

\* thresholds, churn horizon, anchor and one filter
HistoryRequests ==
    { DefaultReq,
      [DefaultReq EXCEPT !.alert_threshold = Some(-50), !.churn_months = Some(2),
                         !.compare_mode = Some("ytd")],
      [DefaultReq EXCEPT !.alert_threshold = Some(10), !.churn_months = Some(1)],
      [DefaultReq EXCEPT !.persist_threshold = Some(-50), !.recovery_threshold = Some(50),
                         !.churn_months = Some(0)],
      [DefaultReq EXCEPT !.alert_threshold = Some(0), !.location = Some(<<"L1">>),
                         !.churn_months = Some(3)],
      [DefaultReq EXCEPT !.var_min = Some(-50), !.churn_months = Some(4)],
      [DefaultReq EXCEPT !.month_key = Some(<<2024, 1>>), !.persist_threshold = Some(0)] }

InitOutputs ==
    /\ req \in HistoryRequests
    /\ table \in HistoryTables
    /\ env = DefaultEnv
    /\ InitCommon

SpecOutputs == InitOutputs /\ [][Next]_vars

----------------------------------------------------------------------------
(* A process serving a sequence of requests, under each environment *)

ServerEnvs ==
    { DefaultEnv,
      [api_key |-> TRUE, timeout |-> "12"],
      [api_key |-> TRUE, timeout |-> "malformed"] }

InitServer ==
    /\ req \in ServerRequests
    /\ table \in ServerFiles
    /\ env \in ServerEnvs
    /\ InitCommon

SpecServer == InitServer /\ [][NextServer]_vars

\* a process that is sent more distinct uploads than its cache holds
InitCache ==
    /\ req \in CacheRequests
    /\ table \in CacheFiles
    /\ env = DefaultEnv
    /\ InitCommon

SpecCache == InitCache /\ [][NextCache]_vars

\* a process with up to MaxInFlight requests in flight
InitLoop ==
    /\ req \in CacheRequests
    /\ table \in ServerFiles
    /\ env = DefaultEnv
    /\ InitCommon

SpecLoop == InitLoop /\ [][NextLoop]_vars

\* a process before its first request
InitApi ==
    /\ req = DefaultReq
    /\ table = NoTable
    /\ env = DefaultEnv
    /\ endpoint = "analyze"
    /\ pc = "done"
    /\ call = "primary"
    /\ df = EmptyDf
    /\ month_cols = <<>>
    /\ curr_cols = <<>>
    /\ prev_cols = <<>>
    /\ df_filtered = <<>>
    /\ envelope = None
    /\ result = None
    /\ error = None
    /\ response = None
    /\ cache = <<>>
    /\ shared = FALSE
    /\ pending = <<>>
    /\ used = <<>>

SpecApi == InitApi /\ [][NextApi]_vars

\* column labels of up to MaxLabel tokens: a month abbreviation, a year of
\* four or of two digits, whitespace, a separator, other text
LabelTokens == {TMon(3), TY4(2024), TD2(24), TWs, TSep, TTxt(1)}

LabelForms ==
    {l \in UNION {[1..n -> LabelTokens] : n \in 1..MaxLabel} :
        \A i \in 1..(Len(l) - 1) : ~(l[i] = TWs /\ l[i + 1] = TWs)}

\* a sheet with two month columns and one column under any label
InitLabels ==
    /\ req \in {DefaultReq, [DefaultReq EXCEPT !.compare_mode = Some("ytd")]}
    /\ \E l \in LabelForms :
          LET cols == <<LabelMonYear(1, 2023), LabelMonYear(1, 2024), l>>
          IN table = [headers |-> AllHeaders, columns |-> cols, rows |-> <<PlainRow(cols)>>]
    /\ env = DefaultEnv
    /\ InitCommon

SpecLabels == InitLabels /\ [][Next]_vars

----------------------------------------------------------------------------
(* Period resolution: properties *)

\* the running call has resolved its period
Resolved == pc \in {"resolved", "metrics", "filtered", "returned"}

KeysOf(cols) == {MonthKey(cols[i]) : i \in 1..Len(cols)}

\* the key of the chronologically latest recognized month
LatestKey == CHOOSE k \in KeysOf(month_cols) :
                \A j \in KeysOf(month_cols) : j[1] * 12 + j[2] <= k[1] * 12 + k[2]

AnchorKey == IF Truthy(CallMonthKey) THEN The(CallMonthKey) ELSE LatestKey
AnchorExists == month_cols # <<>> /\ AnchorKey \in KeysOf(month_cols)

\* the 1-based position of the anchor in the sorted list: the first column
\* with the given key, or the last column when no key is given
AnchorPos ==
    IF Truthy(CallMonthKey)
    THEN CHOOSE i \in 1..Len(month_cols) :
            /\ MonthKey(month_cols[i]) = AnchorKey
            /\ \A j \in 1..(i - 1) : MonthKey(month_cols[j]) # AnchorKey
    ELSE Len(month_cols)

HasPriorYear(mc) == <<mc.year - 1, mc.month>> \in KeysOf(month_cols)

\* C1: after every successful resolution currentColumns and previousColumns
\* have the same non-zero length and previousColumns[i] is the recognized
\* month with the calendar month of currentColumns[i] and the year before.
C1_PairedByPosition ==
    Resolved =>
        /\ Len(curr_cols) = Len(prev_cols)
        /\ Len(curr_cols) # 0
        /\ \A i \in 1..Len(curr_cols) :
              /\ i <= Len(prev_cols)
              /\ prev_cols[i] \in Range(month_cols)
              /\ prev_cols[i].month = curr_cols[i].month
              /\ prev_cols[i].year = curr_cols[i].year - 1

\* C2: in ytd mode with anchor month m of year Y the resolution succeeds with
\* m current columns exactly when every month 1..m of Y and of Y-1 is
\* recognized, and fails in every other case.
YtdAllPresent ==
    \A k \in 1..AnchorKey[2] :
        /\ <<AnchorKey[1], k>> \in KeysOf(month_cols)
        /\ <<AnchorKey[1] - 1, k>> \in KeysOf(month_cols)

C2_YtdIffAllPresent ==
    (pc \in {"resolved", "raised"} /\ CallMode = "ytd" /\ AnchorExists) =>
        /\ (pc = "resolved" /\ Len(curr_cols) = AnchorKey[2]) <=> YtdAllPresent
        /\ ~YtdAllPresent => pc = "raised"

\* C3: in a rolling mode with window N the resolution fails when fewer than N
\* recognized months precede the anchor in the sorted list, and fails when a
\* month of the window has no recognized month one year earlier.
RollingN == IF CallMode = "rolling3" THEN 3 ELSE 6

C3_RollingFails ==
    (pc \in {"resolved", "raised"} /\ CallMode \in {"rolling3", "rolling6"} /\ AnchorExists) =>
        /\ AnchorPos - 1 < RollingN => pc = "raised"
        /\ (/\ AnchorPos >= RollingN
            /\ \E i \in (AnchorPos - RollingN + 1)..AnchorPos : ~HasPriorYear(month_cols[i]))
              => pc = "raised"

C3_Witness ==
    /\ pc = "raised" /\ CallMode = "rolling3" /\ AnchorExists
    /\ AnchorPos >= RollingN
    /\ \E i \in (AnchorPos - RollingN + 1)..AnchorPos : ~HasPriorYear(month_cols[i])
    /\ \E i \in (AnchorPos - RollingN + 1)..AnchorPos : HasPriorYear(month_cols[i])

\* C4: in a rolling mode a successful resolution takes as currentColumns the
\* N columns at consecutive positions of the sorted list that end at the
\* anchor, also when a calendar month between them is not recognized.
C4_RollingByPosition ==
    (Resolved /\ CallMode \in {"rolling3", "rolling6"}) =>
        /\ Len(curr_cols) = RollingN
        /\ \A i \in 1..Len(curr_cols) :
              curr_cols[i] = month_cols[AnchorPos - RollingN + i]
        /\ MonthKey(curr_cols[Len(curr_cols)]) = AnchorKey

\* a resolved rolling window that skips a calendar month
C4_Witness ==
    /\ Resolved /\ CallMode = "rolling3"
    /\ Len(curr_cols) = 3
    /\ DateOf(curr_cols[3]) - DateOf(curr_cols[1]) > 2

\* C5: the anchor is the recognized month with the given monthKey, or the
\* latest recognized month when no key is given; after a successful
\* resolution it is the last current column and meta.monthKey is its key.
C5_AnchorIsLast ==
    /\ Resolved =>
          LET last == curr_cols[Len(curr_cols)]
          IN /\ last \in Range(month_cols)
             /\ Truthy(CallMonthKey) => MonthKey(last) = The(CallMonthKey)
             /\ ~Truthy(CallMonthKey) =>
                   /\ last = month_cols[Len(month_cols)]
                   /\ \A i \in 1..Len(month_cols) : DateOf(month_cols[i]) <= DateOf(last)
    /\ pc = "returned" =>
          The(envelope).meta.monthKey = MonthKey(curr_cols[Len(curr_cols)])

C5_Witness ==
    /\ pc = "returned" /\ ~Truthy(CallMonthKey) /\ CallMode = "ytd"
    /\ Len(curr_cols) >= 2 /\ Len(month_cols) > 2 * Len(curr_cols)

\* C6: period resolution raises AnalysisError when no month column was
\* recognized, when the explicit monthKey matches no recognized month, or when
\* the mode is unsupported; nothing is computed for the call, no envelope is
\* returned, and the handler answers 400 without a body.
ResolutionMustFail ==
    \/ month_cols = <<>>
    \/ Truthy(CallMonthKey) /\ The(CallMonthKey) \notin KeysOf(month_cols)
    \/ CallMode \notin {"month", "ytd", "rolling3", "rolling6"}

C6_ResolutionErrors ==
    [][ /\ (pc = "months" /\ ResolutionMustFail) =>
              /\ pc' = "raised"
              /\ error' # None /\ The(error').type = "AnalysisError"
              /\ df' = df /\ df_filtered' = <<>> /\ envelope' = None
              /\ \A i \in 1..Len(df'.rows) : "Current_Sum" \notin DOMAIN df'.rows[i]
        /\ (pc = "raised" /\ The(error).type = "AnalysisError") =>
              /\ response' # None
              /\ The(response').status = 400
              /\ The(response').body = None ]_vars

C6_Witness ==
    /\ pc = "done" /\ call = "compare"
    /\ The(error).msg = "Mes seleccionado no disponible."
    /\ The(response).status = 400 /\ The(response).body = None
    /\ result # None

----------------------------------------------------------------------------
(* Metrics, filters and rollups: properties *)

HasMetrics == pc \in {"metrics", "filtered", "returned"}

\* v is the percentage variance of curr against prev under the zero rule:
\* the ratio when prev # 0, 0 when both are 0, null (NaN) otherwise
IsVariancePct(v, curr, prev) ==
    /\ prev # 0 => (v.d # 0 /\ v.n * prev = (curr - prev) * 100 * v.d)
    /\ (prev = 0 /\ curr = 0) => (v.d # 0 /\ v.n = 0)
    /\ (prev = 0 /\ curr # 0) => v.d = 0

\* C7: varPct of every sanitized row follows the zero rule on its sums
\* (ratio also for a negative previousSum), varAbs = currentSum - previousSum
\* and impact = |varAbs|.
C7_RowVariance ==
    HasMetrics =>
        \A i \in 1..Len(df.rows) :
            LET r == df.rows[i]
            IN /\ IsVariancePct(r.Var_pct, r.Current_Sum, r.Previous_Sum)
               /\ r.Var_Absoluta = r.Current_Sum - r.Previous_Sum
               /\ r.Impacto >= 0
               /\ r.Impacto \in {r.Var_Absoluta, 0 - r.Var_Absoluta}

C7_Witness ==
    /\ pc = "metrics"
    /\ \E i \in 1..Len(df.rows) :
          df.rows[i].Previous_Sum < 0 /\ df.rows[i].Var_pct = [n |-> -150, d |-> 1]
    /\ \E i \in 1..Len(df.rows) :
          df.rows[i].Previous_Sum = 0 /\ df.rows[i].Current_Sum # 0 /\ df.rows[i].Var_pct.d = 0

\* the Optional value printed for a rollup percentage: null or the ratio
IsOptVariancePct(o, curr, prev) ==
    IF o = None THEN prev = 0 /\ curr # 0
    ELSE The(o).d # 0 /\ IsVariancePct(The(o), curr, prev)

\* C8: in the rollups by cluster, by country and by location the varPct of a
\* group follows the zero rule on the summed currentSum and previousSum of the
\* group: 0 when both sums are 0, null when only previousSum is 0, else the
\* ratio of the sums.
C8_GroupVariance ==
    pc = "returned" =>
        LET c == The(envelope).clusters
        IN \A g \in Range(c.byCluster) \cup Range(c.byCountry) \cup Range(c.byArea) :
              IsOptVariancePct(g.VarPct, g.Curr, g.Prev)

\* C9: summary.totalVarPct follows the zero rule on the filtered totals: the
\* ratio whenever totalPrev # 0, 0 when both totals are 0, null when only
\* totalPrev is 0.
C9_TotalVariance ==
    pc = "returned" =>
        LET t == The(envelope).summary
        IN IsVariancePct(t.totalVarPct, t.totalCurr, t.totalPrev)

\* the row passes the filters the request sets (bounds are inclusive)
PassesSearch(r) ==
    LET needle == TextStrip(Lower(The(req.search)))
    IN (req.search # None /\ needle # <<>>) => Contains(Haystack(r, df.headers), needle)
PassesLocation(r) ==
    (req.location # None /\ req.location # Some(<<"all">>) /\ "Ubicacion" \in df.headers)
        => r.Ubicacion = req.location
PassesImpact(r) ==
    /\ \A b \in req.impact_min : r.Impacto >= b
    /\ \A b \in req.impact_max : r.Impacto <= b
PassesVar(r) ==
    /\ \A b \in req.var_min : r.Var_pct.d # 0 /\ r.Var_pct.n >= b * r.Var_pct.d
    /\ \A b \in req.var_max : r.Var_pct.d # 0 /\ r.Var_pct.n <= b * r.Var_pct.d

\* C10: with varMin or varMax set no row with a null varPct survives; a row
\* whose varPct or impact equals a bound survives; the filtered view holds
\* exactly the rows that pass every filter that is set.
C10_Filters ==
    pc = "filtered" =>
        /\ (req.var_min # None \/ req.var_max # None) =>
              \A r \in Range(df_filtered) : r.Var_pct.d # 0
        /\ Range(df_filtered) =
              {r \in Range(df.rows) :
                  PassesSearch(r) /\ PassesLocation(r) /\ PassesImpact(r) /\ PassesVar(r)}
        /\ Len(df_filtered) = Cardinality(Range(df_filtered))

\* two filters set; a row on both bounds survives and a null-varPct row is dropped
C10_Witness ==
    /\ pc = "filtered"
    /\ req.var_min = Some(-50) /\ req.impact_min = Some(1)
    /\ \E r \in Range(df_filtered) : r.Var_pct = [n |-> -50, d |-> 1] /\ r.Impacto = 1
    /\ \E r \in Range(df.rows) : r.Var_pct.d = 0 /\ r \notin Range(df_filtered)

----------------------------------------------------------------------------
(* The filtered view and what is computed from it: properties *)

\* the rows of the unfiltered table that pass every filter that is set
PassesAll(r) == PassesSearch(r) /\ PassesLocation(r) /\ PassesImpact(r) /\ PassesVar(r)
View == SelectSeq(df.rows, PassesAll)
ViewNames == {View[i].Cliente : i \in 1..Len(View)}

\* the sum of a derived column over the rows of the view within one group
ViewSum(field, col, key) ==
    SumSeq([i \in 1..Len(View) |->
              IF col = "" \/ (col = "Cluster" /\ View[i].Cluster = key)
                          \/ (col # "Cluster" /\ col # "" /\ View[i][col] = Some(key))
              THEN View[i][field] ELSE 0])

\* the sum of a month column over the rows of the view
ViewColumn(label) == SumSeq([i \in 1..Len(View) |-> ToNumeric(View[i].cells[label])])

NamesOf(list) == {list[i].Cliente : i \in 1..Len(list)}

FromView(groups, col) ==
    \A i \in 1..Len(groups) :
        /\ groups[i].Curr = ViewSum("Current_Sum", col, groups[i].Key)
        /\ groups[i].Prev = ViewSum("Previous_Sum", col, groups[i].Key)

OutputsFromView ==
    LET e == The(envelope)
    IN /\ e.summary.totalCurr = ViewSum("Current_Sum", "", <<>>)
       /\ e.summary.totalPrev = ViewSum("Previous_Sum", "", <<>>)
       /\ NamesOf(e.tables.alerts) \cup NamesOf(e.tables.growth)
            \cup NamesOf(e.tables.new) \cup NamesOf(e.tables.lost) \subseteq ViewNames
       /\ e.summary.alertsCount + e.summary.growthCount
            + e.summary.newCount + e.summary.lostCount <= 4 * Len(View)
       /\ FromView(e.clusters.byCluster, "Cluster")
       /\ FromView(e.clusters.byCountry, "Country")
       /\ FromView(e.clusters.byArea, "Ubicacion")
       /\ FromView(e.tables.locations, "Ubicacion")
       /\ \A i \in 1..Len(e.series) :
             \E mc \in Range(month_cols) :
                 /\ MonthKey(mc) = e.series[i].key
                 /\ e.series[i].curr = ViewColumn(mc.col)
       /\ \A i \in 1..Len(e.series) :
             \E mc \in Range(month_cols) :
                 /\ MonthKey(mc) = <<e.series[i].key[1] - 1, e.series[i].key[2]>>
                 /\ e.series[i].prev = ViewColumn(mc.col)
       /\ {e.hotelSeries.alerts[i].name : i \in 1..Len(e.hotelSeries.alerts)}
            \cup {e.hotelSeries.growth[i].name : i \in 1..Len(e.hotelSeries.growth)}
            \subseteq ViewNames
       /\ NamesOf(e.intelligentAlerts.persistent) \cup NamesOf(e.intelligentAlerts.recovery)
            \subseteq ViewNames
       /\ NamesOf(e.churn) \subseteq ViewNames
       /\ SumSeq([i \in 1..Len(e.cohorts.rows) |-> e.cohorts.rows[i].size]) <= Len(View)

\* C11: applying the filters leaves the unfiltered table (and the decoded
\* upload and the cache) unchanged, and every output of the envelope is
\* computed from the rows that pass every set filter: totals, rollups and
\* series are sums over exactly those rows, and every row listed in a bucket,
\* in hotelSeries, intelligentAlerts, churn or a cohort is one of them.
C11_SameFilteredView ==
    /\ [][pc = "metrics" => (df' = df /\ table' = table /\ cache' = cache)]_vars
    /\ [](envelope # None => OutputsFromView)

\* an envelope over a view that dropped a row and kept one, with a bucket,
\* a churn entry and a cohort filled from it
C11_Witness ==
    /\ envelope # None
    /\ 0 < Len(View) /\ Len(View) < Len(df.rows)
    /\ The(envelope).tables.alerts # <<>>
    /\ The(envelope).cohorts.rows # <<>>
    /\ The(envelope).series # <<>>
    /\ The(envelope).hotelSeries.alerts # <<>>

----------------------------------------------------------------------------
(* Buckets: properties *)

Env == The(envelope)

\* a percentage (NaN is null) against an integer bound
PctBelow(v, b) == v.d # 0 /\ v.n < b * v.d
PctAbove(v, b) == v.d # 0 /\ v.n > b * v.d
PctAtMost(v, b) == v.d # 0 /\ v.n <= b * v.d
PctAtLeast(v, b) == v.d # 0 /\ v.n >= b * v.d

IsAlert(r) == PctBelow(r.Var_pct, Env.meta.alertThreshold)
IsGrowth(r) == r.Var_Absoluta > 3000 \/ PctAbove(r.Var_pct, 50)
IsNew(r) == r.Previous_Sum = 0 /\ r.Current_Sum > 0
IsLost(r) == r.Previous_Sum > 0 /\ r.Current_Sum = 0

FilteredNames(S) == {r.Cliente : r \in S}

\* C12: a row of the filtered view is in Alerts iff its varPct is non-null
\* and strictly below alertThreshold, in Growth iff varAbs > 3000 or varPct is
\* non-null and > 50, in New iff previousSum = 0 and currentSum > 0, in Lost
\* iff previousSum > 0 and currentSum = 0; each row is listed once; Alerts is
\* ordered by impact, Growth by varAbs, New by currentSum and Lost by
\* previousSum, all descending.
C12_Buckets ==
    envelope # None =>
        LET t == Env.tables
            F == Range(df_filtered)
        IN /\ NamesOf(t.alerts) = FilteredNames({r \in F : IsAlert(r)})
           /\ NamesOf(t.growth) = FilteredNames({r \in F : IsGrowth(r)})
           /\ NamesOf(t.new) = FilteredNames({r \in F : IsNew(r)})
           /\ NamesOf(t.lost) = FilteredNames({r \in F : IsLost(r)})
           /\ Len(t.alerts) = Cardinality(NamesOf(t.alerts))
           /\ Len(t.growth) = Cardinality(NamesOf(t.growth))
           /\ Len(t.new) = Cardinality(NamesOf(t.new))
           /\ Len(t.lost) = Cardinality(NamesOf(t.lost))
           /\ \A i, j \in 1..Len(t.alerts) :
                 i < j => Abs(t.alerts[i].VarAbs) >= Abs(t.alerts[j].VarAbs)
           /\ \A i, j \in 1..Len(t.growth) : i < j => t.growth[i].VarAbs >= t.growth[j].VarAbs
           /\ \A i, j \in 1..Len(t.new) : i < j => t.new[i].Curr >= t.new[j].Curr
           /\ \A i, j \in 1..Len(t.lost) : i < j => t.lost[i].Prev >= t.lost[j].Prev

\* a row with varPct exactly 50 and varAbs exactly 3000 stays out of Growth
\* while a row with a smaller varPct and varAbs 3001 is in it
C12_Witness ==
    /\ envelope # None
    /\ \E r \in Range(df_filtered) :
          /\ r.Var_pct = RatInt(50) /\ r.Var_Absoluta = 3000
          /\ r.Cliente \notin NamesOf(Env.tables.growth)
    /\ \E i \in 1..Len(Env.tables.growth) :
          /\ Env.tables.growth[i].VarAbs = 3001
          /\ PctBelow(The(Env.tables.growth[i].VarPct), 50)

\* C13: with a negative alertThreshold no row of the filtered view is in both
\* the Alerts bucket and the Growth bucket, whatever its cell values.
C13_AlertsGrowthDisjoint ==
    (envelope # None /\ Env.meta.alertThreshold < 0) =>
        NamesOf(Env.tables.alerts) \cap NamesOf(Env.tables.growth) = {}

----------------------------------------------------------------------------
(* Two-period alerts: properties *)

\* the number in a cell: a blank or non-numeric cell counts as 0
CellValue(cell) == IF cell.k = "num" THEN cell.v ELSE 0

HasCounterpart(mc) ==
    \E m \in Range(month_cols) : m.year = mc.year - 1 /\ m.month = mc.month

Counterpart(mc) ==
    CHOOSE m \in Range(month_cols) : m.year = mc.year - 1 /\ m.month = mc.month

\* the year-over-year percentage of a row in one month: null (NaN) when the
\* prior-year cell is 0
YoY(r, mc) ==
    LET c == CellValue(r.cells[mc.col])
        p == CellValue(r.cells[Counterpart(mc).col])
    IN IF p = 0 THEN NaN ELSE Rat((c - p) * 100, p)

PersistThreshold ==
    IF req.persist_threshold = None THEN Env.meta.alertThreshold
    ELSE The(req.persist_threshold)
RecoveryThreshold ==
    IF req.recovery_threshold = None THEN 0 ELSE The(req.recovery_threshold)

IsPersistent(r, last, prev) ==
    /\ PctAtMost(YoY(r, last), PersistThreshold)
    /\ PctAtMost(YoY(r, prev), PersistThreshold)
IsRecovery(r, last, prev) ==
    /\ PctAtMost(YoY(r, prev), PersistThreshold)
    /\ PctAtLeast(YoY(r, last), RecoveryThreshold)

\* C14: the two-period lists are empty when fewer than two months are
\* recognized or the latest month or the one before it has no prior-year
\* column; otherwise Persistent holds exactly the filtered rows whose varLast
\* and varPrev are both non-null and <= persistThreshold, Recovery exactly
\* those with both non-null, varPrev <= persistThreshold and
\* varLast >= recoveryThreshold; a value is null when its prior-year cell is
\* 0; persistThreshold defaults to alertThreshold, recoveryThreshold to 0.
C14_TwoPeriod ==
    envelope # None =>
        LET ia == Env.intelligentAlerts
            n == Len(month_cols)
            F == Range(df_filtered)
        IN /\ Env.meta.intelligentThresholds =
                 [persistent |-> PersistThreshold, recovery |-> RecoveryThreshold]
           /\ IF n < 2 \/ ~HasCounterpart(month_cols[n]) \/ ~HasCounterpart(month_cols[n - 1])
              THEN ia.persistent = <<>> /\ ia.recovery = <<>>
              ELSE /\ NamesOf(ia.persistent) =
                        FilteredNames({r \in F : IsPersistent(r, month_cols[n], month_cols[n - 1])})
                   /\ NamesOf(ia.recovery) =
                        FilteredNames({r \in F : IsRecovery(r, month_cols[n], month_cols[n - 1])})
                   /\ Len(ia.persistent) = Cardinality(NamesOf(ia.persistent))
                   /\ Len(ia.recovery) = Cardinality(NamesOf(ia.recovery))

\* persistThreshold 0: a row that fell 50% and then held level is in both
\* lists, and a row with a prior-year cell of 0 is in neither
C14_Witness ==
    /\ envelope # None
    /\ req.persist_threshold = Some(0)
    /\ NamesOf(Env.intelligentAlerts.persistent) \cap NamesOf(Env.intelligentAlerts.recovery) # {}
    /\ \E r \in Range(df_filtered) :
          /\ r.Cliente \notin NamesOf(Env.intelligentAlerts.persistent)
                                \cup NamesOf(Env.intelligentAlerts.recovery)
          /\ IsNaN(YoY(r, month_cols[Len(month_cols)]))

----------------------------------------------------------------------------
(* Churn: properties *)

\* a row is active in a month when its value for that month is nonzero
ActiveIn(r, i) == CellValue(r.cells[month_cols[i].col]) # 0

\* the number of recognized month columns after the row's last active month,
\* all of them when the row is never active
InactiveMonths(r) ==
    LET act == {i \in 1..Len(month_cols) : ActiveIn(r, i)}
    IN IF act = {} THEN Len(month_cols)
       ELSE Len(month_cols) - (CHOOSE i \in act : \A j \in act : j <= i)

RowNamed(name) == CHOOSE r \in Range(df_filtered) : r.Cliente = name

\* C15: monthsInactive of a filtered row is the number of recognized month
\* columns after its last active month (0 when the latest month is active,
\* the number of recognized months when it is never active), it lies between
\* 0 and that number, and the churn list holds exactly the filtered rows with
\* monthsInactive >= churnMonths.
C15_MonthsInactive ==
    (envelope # None /\ month_cols # <<>>) =>
        /\ NamesOf(Env.churn) =
              FilteredNames({r \in Range(df_filtered) :
                                InactiveMonths(r) >= Env.meta.churnMonths})
        /\ Len(Env.churn) = Cardinality(NamesOf(Env.churn))
        /\ \A i \in 1..Len(Env.churn) :
              /\ Env.churn[i].MonthsInactive = InactiveMonths(RowNamed(Env.churn[i].Cliente))
              /\ 0 <= Env.churn[i].MonthsInactive
              /\ Env.churn[i].MonthsInactive <= Len(month_cols)

\* C16: the months counted as inactive for a listed row all hold the value
\* 0: a nonzero value, negative ones included, is activity and ends the count;
\* the month just before them holds a nonzero value.
C16_NonzeroIsActivity ==
    envelope # None =>
        \A i \in 1..Len(Env.churn) :
            LET r == RowNamed(Env.churn[i].Cliente)
                k == Env.churn[i].MonthsInactive
                n == Len(month_cols)
            IN /\ \A j \in (n - k + 1)..n : ~ActiveIn(r, j)
               /\ k < n => ActiveIn(r, n - k)

----------------------------------------------------------------------------
(* Cohorts: properties *)

\* the month key of the first recognized month in which the row is active,
\* None when it is never active
FirstActiveKey(r) ==
    LET act == {i \in 1..Len(month_cols) : ActiveIn(r, i)}
    IN IF act = {} THEN None
       ELSE Some(MonthKey(month_cols[CHOOSE i \in act : \A j \in act : i <= j]))

CohortSizeOf(k) == Cardinality({r \in Range(df_filtered) : FirstActiveKey(r) = Some(k)})

KeyBefore(a, b) == a[1] * 12 + a[2] < b[1] * 12 + b[2]

\* C17: every filtered row is counted in exactly one cohort, that of the
\* YYYY-MM of its first active month, or in none when it is never active:
\* each cohort's size is the number of filtered rows whose first active month
\* it is, there is a cohort for every such month, the sizes sum to the number
\* of rows active in some month, no cohort is empty and the cohort rows are
\* in ascending key order.
C17_CohortPartition ==
    (envelope # None /\ month_cols # <<>>) =>
        LET cs == Env.cohorts.rows
        IN /\ \A i \in 1..Len(cs) : cs[i].size = CohortSizeOf(cs[i].cohort) /\ cs[i].size > 0
           /\ \A r \in Range(df_filtered) :
                 FirstActiveKey(r) # None =>
                     \E i \in 1..Len(cs) : Some(cs[i].cohort) = FirstActiveKey(r)
           /\ SumSeq([i \in 1..Len(cs) |-> cs[i].size]) =
                 Cardinality({r \in Range(df_filtered) : FirstActiveKey(r) # None})
           /\ \A i, j \in 1..Len(cs) : i < j => KeyBefore(cs[i].cohort, cs[j].cohort)

\* the base-month revenue of a cohort: the base-month values of the rows
\* whose first month with sales it is
BaseRevenue(k) ==
    LET base == CHOOSE m \in Range(month_cols) : MonthKey(m) = k
        In(r) == \E i \in 1..Len(month_cols) :
                    /\ MonthKey(month_cols[i]) = k
                    /\ CellValue(r.cells[month_cols[i].col]) > 0
                    /\ \A j \in 1..(i - 1) : CellValue(r.cells[month_cols[j].col]) <= 0
        members == SelectSeq(df_filtered, In)
    IN SumSeq([i \in 1..Len(members) |-> CellValue(members[i].cells[base.col])])

\* C18: the revenue and active sequences of every cohort have one entry per
\* recognized month, in chronological order; the entries of months before
\* the base month are null, those of the base month and later are numbers,
\* and the revenue entry of the base month is 100.0 when baseRevenue > 0.
C18_CohortSequences ==
    envelope # None =>
        LET cs == Env.cohorts.rows
            n == Len(month_cols)
        IN /\ Env.cohorts.columns = [i \in 1..n |-> MonthKey(month_cols[i])]
           /\ \A i, j \in 1..n : i < j => ~KeyBefore(MonthKey(month_cols[j]), MonthKey(month_cols[i]))
           /\ \A c \in 1..Len(cs) :
                 /\ Len(cs[c].revenue) = n /\ Len(cs[c].active) = n
                 /\ \A i \in 1..n :
                       IF KeyBefore(MonthKey(month_cols[i]), cs[c].cohort)
                       THEN cs[c].revenue[i] = None /\ cs[c].active[i] = None
                       ELSE /\ cs[c].revenue[i] # None /\ ~IsNaN(The(cs[c].revenue[i]))
                            /\ cs[c].active[i] # None /\ ~IsNaN(The(cs[c].active[i]))
                 /\ \A i \in 1..n :
                       (MonthKey(month_cols[i]) = cs[c].cohort /\ BaseRevenue(cs[c].cohort) > 0)
                           => cs[c].revenue[i] = Some(RatInt(100))

----------------------------------------------------------------------------
(* File formats and the narrative summary: properties *)

\* C19: a request whose file name extension is neither xls nor xlsx ends
\* with the unsupported-format error (status 400), whatever was served before.
C19_UnsupportedFormatFails ==
    (pc = "done" /\ req.filename_ext \notin {"xls", "xlsx"}) =>
        /\ The(response).status = 400
        /\ The(response).detail = "Formato no soportado. Usa .xls o .xlsx"

\* C20: building the summary never makes analyze_yoy raise: whenever the
\* rest of the envelope can be computed the call returns, and the returned
\* aiSummary is either the LLM's (source "llm", no fallback reason) or the
\* heuristic one (source "heuristic", with a fallback reason).
C20_SummaryNeverRaises ==
    /\ [][(pc = "filtered" /\ ~SeriesRaises(df_filtered, month_cols)) => pc' = "returned"]_vars
    /\ [](envelope # None =>
            \/ Env.aiSummary.source = "llm" /\ Env.aiSummary.llmFallbackReason = None
            \/ /\ Env.aiSummary.source = "heuristic"
               /\ Env.aiSummary.llmFallbackReason # None
               /\ Env.aiSummary.headline \in {"crecimiento", "caida"})

----------------------------------------------------------------------------
(* The monthly series: properties *)

\* the recognized month with the same calendar month one year earlier exists
PriorYearRecognized(key) ==
    \E mc \in Range(month_cols) : MonthKey(mc) = <<key[1] - 1, key[2]>>

\* the filtered view's total of the recognized month with this key
MonthTotal(key) ==
    ViewColumn((CHOOSE mc \in Range(month_cols) : MonthKey(mc) = key).col)

FlaggedMonths == LET Flag(m) == m.hasPrev IN SelectSeq(Env.meta.availableMonths, Flag)

\* C21: the series of an envelope has exactly one entry per recognized month
\* whose availableMonths flag hasPrev is true (the recognized month one year
\* earlier exists), none for another month, in chronological order, and each
\* entry's curr and prev are the filtered view's column totals of the month
\* and of its prior-year month.
C21_SeriesMonths ==
    envelope # None =>
        /\ Len(Env.meta.availableMonths) = Len(month_cols)
        /\ \A i \in 1..Len(month_cols) :
              /\ Env.meta.availableMonths[i].key = MonthKey(month_cols[i])
              /\ Env.meta.availableMonths[i].hasPrev
                   <=> PriorYearRecognized(MonthKey(month_cols[i]))
        /\ Len(Env.series) = Len(FlaggedMonths)
        /\ \A i \in 1..Len(Env.series) :
              /\ Env.series[i].key = FlaggedMonths[i].key
              /\ Env.series[i].curr = MonthTotal(Env.series[i].key)
              /\ Env.series[i].prev =
                   MonthTotal(<<Env.series[i].key[1] - 1, Env.series[i].key[2]>>)
        /\ \A i, j \in 1..Len(Env.series) :
              i < j => KeyBefore(Env.series[i].key, Env.series[j].key)

\* an envelope over a view that dropped a row, with a recognized month left
\* out of the series and two months in it, one with a nonzero total
C21_Witness ==
    /\ envelope # None
    /\ 0 < Len(View) /\ Len(View) < Len(df.rows)
    /\ Len(Env.series) = 2
    /\ Len(Env.series) < Len(Env.meta.availableMonths)
    /\ \E i \in 1..Len(Env.series) : Env.series[i].curr # 0 /\ Env.series[i].prev # 0

----------------------------------------------------------------------------
(* The decoded-table cache: properties *)

CachedKeys == [i \in 1..Len(cache) |-> cache[i].key]

\* the (up to) n most recently used distinct content keys, oldest first
MostRecent(n) ==
    IF Len(used) <= n THEN used ELSE SubSeq(used, Len(used) - n + 1, Len(used))

\* the position of a content key in the order of last use
LastUse(key) == CHOOSE i \in 1..Len(used) : used[i] = key

\* C22: the cache holds at most 4 entries, one per content key, and they are
\* the entries of the (up to) 4 most recently used distinct content keys, a
\* write and a read hit both counting as a use; an entry that a write evicts
\* is the least recently used one of the cache; a read miss that is not
\* followed by a write leaves the cache as it was.
C22_LeastRecentlyUsed ==
    /\ [](/\ Len(cache) <= _EXCEL_CACHE_MAX
          /\ CachedKeys = MostRecent(_EXCEL_CACHE_MAX))
    /\ [][pc = "start" =>
            \A i \in 1..Len(cache) :
                (\A j \in 1..Len(cache') : cache'[j].key # cache[i].key) =>
                    \A k \in 1..Len(cache) : LastUse(cache[i].key) <= LastUse(cache[k].key)]_vars
    /\ [][(pc = "start" /\ ExcelCacheGet(cache, table) = None /\ pc' = "raised") =>
            cache' = cache]_vars

\* a read hit on a full cache after a fifth upload evicted an entry
C22_Witness ==
    /\ pc = "read"
    /\ req.filename_ext = "csv"
    /\ Len(cache) = _EXCEL_CACHE_MAX
    /\ Len(used) > _EXCEL_CACHE_MAX
    /\ cache[Len(cache)].key = table
    /\ used[Len(used)] = table

\* C23: a table handed out by _read_excel, on a miss as on a hit, is never
\* the object the cache holds; the cache-held table of every content key stays
\* the table as it was decoded whatever columns requests add or overwrite in
\* theirs, and a cache hit returns exactly that table.
C23_CopiesIndependent ==
    /\ [](pc = "read" => ~shared)
    /\ [](\A i \in 1..Len(cache) : cache[i].df = Decode(cache[i].key))
    /\ [][(pc = "start" /\ ExcelCacheGet(cache, table) # None) =>
            (pc' = "read" /\ df' = Decode(table))]_vars

\* the compare call of a request hits the cache after the primary call wrote
\* its derived columns, and gets the table as decoded
C23_Witness ==
    /\ pc = "read"
    /\ call = "compare"
    /\ result # None
    /\ The(result).primary.summary.totalCurr # 0
    /\ ExcelCacheGet(cache, table) = Some(df)
    /\ df = Decode(table)

----------------------------------------------------------------------------
(* Requests in flight together: properties *)

SupportedName == req.filename_ext \in {"xls", "xlsx"}

\* what _read_excel gives the request when no other request ran before it
ReadsAsAlone ==
    IF SupportedName
    THEN pc' = "read" /\ df' = Decode(table) /\ error' = error
    ELSE pc' = "raised" /\ error' = AnalysisError("Formato no soportado. Usa .xls o .xlsx")

\* C24: whatever the order in which two requests in flight are served, each
\* one reads its table, and completes, as it does when run alone (requests
\* for the same bytes and requests for different bytes alike); the cache
\* holds one entry per content key, the undecorated decoded table, and never
\* more than 4 entries.
C24_RequestsInFlight ==
    /\ [][(pc = "start" /\ call = "primary" /\ pc' # pc) => ReadsAsAlone]_vars
    /\ [](response # None =>
            The(response).status = IF SupportedName THEN 200 ELSE 400)
    /\ [](/\ Len(cache) <= _EXCEL_CACHE_MAX
          /\ \A i, j \in 1..Len(cache) : cache[i].key = cache[j].key => i = j
          /\ \A i \in 1..Len(cache) : cache[i].df = Decode(cache[i].key))

----------------------------------------------------------------------------
(* Column labels: properties *)

\* the label, stripped, matches one of the three regex layouts
MatchesLayout(l) == \E i \in 1..3 : RegexMatch(i, Strip(l)) # None

\* the label splits on whitespace into exactly a month abbreviation and a
\* four-digit year starting with 20
TwoTokens(l) ==
    LET parts == SplitWs(Strip(l), <<>>)
    IN /\ Len(parts) = 2
       /\ Len(parts[1]) = 1 /\ parts[1][1].k = "mon"
       /\ Len(parts[2]) = 1 /\ parts[2][1].k = "y4"

Recognized(l) == \E i \in 1..Len(month_cols) : month_cols[i].col = l

\* C25: a column label that matches none of the three regex layouts is a
\* month column only if it splits on whitespace into exactly two tokens, a
\* month abbreviation and a four-digit year starting with 20; a label of
\* three or more tokens is not a month column.
C25_FallbackTwoTokens ==
    pc \in {"months", "resolved", "metrics", "filtered", "returned"} =>
        \A i \in 1..Len(df.columns) :
            (~MatchesLayout(df.columns[i]) /\ Recognized(df.columns[i]))
                => TwoTokens(df.columns[i])

----------------------------------------------------------------------------
(* The JSON routes: properties *)

\* C26: when test_connection reports failure, /api/netsuite/test answers 502
\* with the failure message; it answers 500 only for a configuration error
\* (missing environment variables) or an unexpected exception.
C26_TestFailureIs502 ==
    (endpoint = "netsuite_test" /\ pc = "done" /\ response # None) =>
        /\ \A r \in result :
              ~r.success => /\ The(response).status = 502
                            /\ The(response).detail = r.message
        /\ The(response).status = 500 =>
              \E e \in error : e.type # "HTTPException"

\* C27: in /api/analyze and in /api/analyze/netsuite, the comparison
\* analysis runs over the same input with the same filters and thresholds as
\* the primary analysis (alert_threshold, search, location, impact and
\* variance bounds, persist_threshold, recovery_threshold, churn_months); only
\* mode and month key differ.
C27_CompareSameArguments ==
    (endpoint \in {"analyze", "analyze_netsuite"} /\ call = "compare" /\ pc # "done") =>
        /\ AlertThresholdArg(CallArgs) = AlertThresholdArg(req)
        /\ ChurnMonthsArg(CallArgs) = ChurnMonthsArg(req)
        /\ \A f \in {"search", "location", "impact_min", "impact_max", "var_min",
                     "var_max", "persist_threshold", "recovery_threshold"} :
              CallArgs[f] = req[f]
        /\ pc = "returned" =>
              /\ Env.meta.alertThreshold = The(result).primary.meta.alertThreshold
              /\ Env.meta.churnMonths = The(result).primary.meta.churnMonths
              /\ Env.meta.intelligentThresholds =
                   The(result).primary.meta.intelligentThresholds
              /\ Env.meta.availableMonths = The(result).primary.meta.availableMonths

\* C28: the analysis runs with the alert_threshold and the churn_months the
\* caller supplied, for every supplied value including 0, and
\* meta.alertThreshold and meta.churnMonths echo them; the defaults -30 and 9
\* are used only when the value is absent.
C28_SuppliedThresholds ==
    envelope # None =>
        /\ Env.meta.alertThreshold =
             IF req.alert_threshold = None THEN -30 ELSE The(req.alert_threshold)
        /\ Env.meta.churnMonths =
             IF req.churn_months = None THEN 9 ELSE The(req.churn_months)

----------------------------------------------------------------------------
(* Lost and New rows against Alerts and Growth: properties *)

\* C29: every row of the Lost bucket has varPct exactly -100, so with
\* alertThreshold > -100 every Lost row is in the Alerts bucket; every row of
\* the New bucket has a null varPct, is never in the Alerts bucket, and is in
\* the Growth bucket iff its currentSum is above 3000.
C29_LostAndNew ==
    envelope # None =>
        LET t == Env.tables
        IN /\ \A i \in 1..Len(t.lost) : t.lost[i].VarPct = Some(RatInt(-100))
           /\ Env.meta.alertThreshold > -100 => NamesOf(t.lost) \subseteq NamesOf(t.alerts)
           /\ \A i \in 1..Len(t.new) :
                 /\ t.new[i].VarPct = None
                 /\ t.new[i].Cliente \notin NamesOf(t.alerts)
                 /\ t.new[i].Cliente \in NamesOf(t.growth) <=> t.new[i].Curr > 3000

\* an envelope with a Lost row, listed among the alerts, and a New row with
\* currentSum above 3000, listed in Growth
C29_Witness ==
    /\ envelope # None
    /\ Env.meta.alertThreshold > -100
    /\ Env.tables.lost # <<>>
    /\ NamesOf(Env.tables.lost) \subseteq NamesOf(Env.tables.alerts)
    /\ \E i \in 1..Len(Env.tables.new) :
          /\ Env.tables.new[i].Curr > 3000
          /\ Env.tables.new[i].Cliente \in NamesOf(Env.tables.growth)

----------------------------------------------------------------------------
(* The window of a request and the window-free outputs: properties *)

NoImpactOrVarFilter ==
    /\ req.impact_min = None /\ req.impact_max = None
    /\ req.var_min = None /\ req.var_max = None

\* C30: with no impact or percentage-variance filter set, two analyses of the
\* same input with the same search/location filters and thresholds that
\* differ only in mode and monthKey, and both resolve, return the same
\* intelligentAlerts, churn, cohorts, series and meta.availableMonths (here:
\* the primary and the compare analysis of one request).
C30_WindowIndependent ==
    (pc = "returned" /\ call = "compare" /\ NoImpactOrVarFilter) =>
        LET p == The(result).primary
        IN /\ Env.intelligentAlerts = p.intelligentAlerts
           /\ Env.churn = p.churn
           /\ Env.cohorts = p.cohorts
           /\ Env.series = p.series
           /\ Env.meta.availableMonths = p.meta.availableMonths

====
